---- MODULE Spec2Model ----
(***************************************************************************)
(* Book catalogue (src/src/App.tsx).  The file holds two builds of the     *)
(* application: the generic build (lines 1-1019, Latin CSV header,         *)
(* fill-blanks import, cloud pull, sample seeding) and the localized build *)
(* (lines 1021-2063, fixed Japanese CSV header, overwrite import, editable *)
(* ids, bulk delete).  Definitions of the generic build carry the prefix   *)
(* G_, those of the localized build the prefix L_ where the source uses    *)
(* one name for both.                                                      *)
(*                                                                         *)
(* Text is modelled character by character: a string is a sequence of     *)
(* one-character tokens.  ASCII characters stand for themselves; a         *)
(* non-ASCII character is written "k:<reading>" (kana, kanji), a           *)
(* full-width form of an ASCII character "w:<char>", a half-width kana     *)
(* "h:<reading>".                                                          *)
(***************************************************************************)
EXTENDS Integers, Sequences, FiniteSets, TLC

VARIABLES app, books, stored, reading, alertMsg, editing, selectedIds,
          nextUuid, steps, lastImport, hdrIn, hdrOut, mExisting, mIncoming,
          mOut, codec, isbnIn, isbnOut, page, atSelect, tagsIn, tagsOut,
          lookup, columns, colStored, escIn, escOut

vars == <<app, books, stored, reading, alertMsg, editing, selectedIds,
          nextUuid, steps, lastImport, hdrIn, hdrOut, mExisting, mIncoming,
          mOut, codec, isbnIn, isbnOut, page, atSelect, tagsIn, tagsOut,
          lookup, columns, colStored, escIn, escOut>>

(***************************************************************************)
(* Bounds of the model.                                                    *)
(***************************************************************************)
MaxOps == 3
MaxLongRows == 4
\* Files being read at the same time.
MaxReading == 2

(***************************************************************************)
(* Characters and strings.                                                 *)
(***************************************************************************)
Digits == <<"0", "1", "2", "3", "4", "5", "6", "7", "8", "9">>

IsDigit(c) == \E i \in 1..10 : Digits[i] = c

DigitVal(c) == (CHOOSE i \in 1..10 : Digits[i] = c) - 1

\* JavaScript's \s and the characters String.prototype.trim removes.
IsSpace(c) == c \in {" ", "\t", "\n", "\r", "w: "}

RECURSIVE TrimLeft(_)
TrimLeft(s) == IF s # <<>> /\ IsSpace(Head(s)) THEN TrimLeft(Tail(s)) ELSE s

RECURSIVE TrimRight(_)
TrimRight(s) ==
  IF s # <<>> /\ IsSpace(s[Len(s)]) THEN TrimRight(SubSeq(s, 1, Len(s) - 1))
  ELSE s

trim(s) == TrimRight(TrimLeft(s))

isEmpty(v) == trim(v) = <<>>

RECURSIVE Join(_, _)
Join(ss, sep) ==
  IF ss = <<>> THEN <<>>
  ELSE IF Len(ss) = 1 THEN ss[1]
  ELSE ss[1] \o sep \o Join(Tail(ss), sep)

Range(s) == {s[i] : i \in DOMAIN s}

\* Array.prototype.indexOf, 1-based; 0 stands for JavaScript's -1.
IndexOf(s, x) ==
  IF \E i \in DOMAIN s : s[i] = x
  THEN CHOOSE i \in DOMAIN s : s[i] = x /\ \A j \in 1..(i - 1) : s[j] # x
  ELSE 0

\* uuid(): a fresh identifier, "u" followed by the decimal digits of n.
RECURSIVE Decimal(_)
Decimal(n) ==
  IF n < 10 THEN <<Digits[n + 1]>>
  ELSE Decimal(n \div 10) \o <<Digits[(n % 10) + 1]>>

uuid(n) == <<"u">> \o Decimal(n)

(***************************************************************************)
(* ISBN normalisation.                                                     *)
(***************************************************************************)
RECURSIVE WeightedSum(_, _)
WeightedSum(s, i) ==
  IF i > Len(s) THEN 0
  ELSE (IF (i - 1) % 2 = 0 THEN DigitVal(s[i]) ELSE DigitVal(s[i]) * 3)
       + WeightedSum(s, i + 1)

\* A check digit computed as 10 - r without the case r = 0.
ean13CheckDigitNoWrap(core12) ==
  Decimal(10 - (WeightedSum(core12, 1) % 10))

ean13CheckDigit(core12) ==
  LET r == WeightedSum(core12, 1) % 10
  IN  IF r = 0 THEN <<"0">> ELSE <<Digits[(10 - r) + 1]>>

StripNonDigits(raw) == SelectSeq(raw, IsDigit)

Isbn10To13(d) ==
  LET core12 == <<"9", "7", "8">> \o SubSeq(d, 1, 9)
  IN  core12 \o ean13CheckDigit(core12)

G_normalizeIsbn(raw) ==
  LET d == StripNonDigits(raw)
  IN  IF Len(d) = 13 THEN d
      ELSE IF Len(d) = 10 THEN Isbn10To13(d)
      ELSE <<>>

L_normalizeIsbn(raw) ==
  LET d == StripNonDigits(raw)
  IN  IF Len(d) = 13 THEN d
      ELSE IF Len(d) = 10 THEN Isbn10To13(d)
      ELSE d

(***************************************************************************)
(* Tags.                                                                   *)
(***************************************************************************)
G_IsTagSep(c) == c \in {";", ",", "k:touten"} \/ IsSpace(c)

L_IsTagSep(c) == c \in {";", "k:touten"} \/ IsSpace(c)

\* split(/[...]+/).map(trim).filter(Boolean): the maximal runs of
\* non-separator characters.  cur is the run being read.
RECURSIVE G_SplitTags(_, _)
G_SplitTags(s, cur) ==
  IF s = <<>> THEN (IF cur = <<>> THEN <<>> ELSE <<cur>>)
  ELSE IF G_IsTagSep(Head(s))
       THEN (IF cur = <<>> THEN <<>> ELSE <<cur>>) \o G_SplitTags(Tail(s), <<>>)
       ELSE G_SplitTags(Tail(s), Append(cur, Head(s)))

RECURSIVE L_SplitTags(_, _)
L_SplitTags(s, cur) ==
  IF s = <<>> THEN (IF cur = <<>> THEN <<>> ELSE <<cur>>)
  ELSE IF L_IsTagSep(Head(s))
       THEN (IF cur = <<>> THEN <<>> ELSE <<cur>>) \o L_SplitTags(Tail(s), <<>>)
       ELSE L_SplitTags(Tail(s), Append(cur, Head(s)))

G_parseTags(input) == SelectSeq(G_SplitTags(input, <<>>), LAMBDA t : trim(t) # <<>>)

L_parseTags(input) == SelectSeq(L_SplitTags(input, <<>>), LAMBDA t : trim(t) # <<>>)

\* parseTags applied to an array: trim every element, drop the empty ones.
parseTagsArray(arr) ==
  SelectSeq([i \in DOMAIN arr |-> trim(arr[i])], LAMBDA t : t # <<>>)

(***************************************************************************)
(* CSV tokenizer (parseCSV, and the same loop inside fromCSV).             *)
(***************************************************************************)
\* replace(/\r\n/g, "\n"): drop every "\r" that a "\n" follows.
ReplaceCRLF(s) ==
  LET marked == [i \in DOMAIN s |->
                   [ch |-> s[i],
                    drop |-> s[i] = "\r" /\ i < Len(s) /\ s[i + 1] = "\n"]]
      kept == SelectSeq(marked, LAMBDA m : ~m.drop)
  IN  [i \in DOMAIN kept |-> kept[i].ch]

\* One turn of the scanning loop at index i.  st holds the loop's variables;
\* st.skip is set when the turn before consumed this character too (the
\* "i++" after a doubled quote).
CsvStep(src, i, st) ==
  LET ch == src[i] IN
  IF st.skip THEN [st EXCEPT !.skip = FALSE]
  ELSE IF st.inQ
  THEN IF ch = "\""
       THEN IF i + 1 <= Len(src) /\ src[i + 1] = "\""
            THEN [st EXCEPT !.cur = Append(@, "\""), !.skip = TRUE]
            ELSE [st EXCEPT !.inQ = FALSE]
       ELSE [st EXCEPT !.cur = Append(@, ch)]
  ELSE IF ch = "\"" THEN [st EXCEPT !.inQ = TRUE]
  ELSE IF ch = "," THEN [st EXCEPT !.row = Append(@, st.cur), !.cur = <<>>]
  ELSE IF ch = "\n"
  THEN [st EXCEPT !.rows = Append(@, Append(st.row, st.cur)),
                  !.row = <<>>, !.cur = <<>>]
  ELSE [st EXCEPT !.cur = Append(@, ch)]

\* The loop over src[lo..hi], left to right (split in halves to keep the
\* evaluation shallow).
RECURSIVE CsvScan(_, _, _, _)
CsvScan(src, lo, hi, st) ==
  IF lo > hi THEN st
  ELSE IF lo = hi THEN CsvStep(src, lo, st)
  ELSE LET mid == (lo + hi) \div 2
           left == CsvScan(src, lo, mid, st)
       IN  \* the left half is computed before the right half starts
           IF left.skip \in BOOLEAN
           THEN CsvScan(src, mid + 1, hi, left)
           ELSE st

parseCSV(text) ==
  LET src == ReplaceCRLF(text)
      st == CsvScan(src, 1, Len(src),
                    [rows |-> <<>>, row |-> <<>>, cur |-> <<>>, inQ |-> FALSE,
                     skip |-> FALSE])
  IN  IF st.cur # <<>> \/ st.row # <<>>
      THEN Append(st.rows, Append(st.row, st.cur))
      ELSE st.rows

(***************************************************************************)
(* Books.                                                                  *)
(*   extras is a map from column key to text; a record without extras and  *)
(*   one with an empty extras object are both the empty map << >>.         *)
(*   uid is a history field, read by no operation: the number of the       *)
(*   emptyBook() call (or of the initial record) the record descends from. *)
(*   Object spread copies it like every other field.                       *)
(***************************************************************************)
STATUS_HELD == <<"k:sho", "k:zou">>

STATUS_OUT == <<"k:kashi", "k:shutsu", "k:chuu">>

emptyBook(n) ==
  [id |-> uuid(n), title |-> <<>>, author |-> <<>>, isbn |-> <<>>,
   year |-> <<>>, publisher |-> <<>>, tags |-> <<>>, location |-> <<>>,
   status |-> STATUS_HELD, note |-> <<>>, extras |-> <<>>, uid |-> n]

\* { ...a, ...b } on extras maps.
SpreadExtras(a, b) ==
  [k \in (DOMAIN a) \cup (DOMAIN b) |-> IF k \in DOMAIN b THEN b[k] ELSE a[k]]

\* A book without its history field: what the program can observe.
Fields(b) ==
  [id |-> b.id, title |-> b.title, author |-> b.author, isbn |-> b.isbn,
   year |-> b.year, publisher |-> b.publisher, tags |-> b.tags,
   location |-> b.location, status |-> b.status, note |-> b.note,
   extras |-> b.extras]

(***************************************************************************)
(* JavaScript Map with insertion order: a sequence of [key, val] entries.  *)
(***************************************************************************)
MapIndex(m, k) ==
  IF \E i \in DOMAIN m : m[i].key = k
  THEN CHOOSE i \in DOMAIN m : m[i].key = k
  ELSE 0

MapHas(m, k) == MapIndex(m, k) # 0

\* Map.get as a sequence of length 0 (undefined) or 1.
MapGet(m, k) == IF MapHas(m, k) THEN <<m[MapIndex(m, k)].val>> ELSE <<>>

MapSet(m, k, v) ==
  IF MapHas(m, k) THEN [m EXCEPT ![MapIndex(m, k)] = [key |-> k, val |-> v]]
  ELSE Append(m, [key |-> k, val |-> v])

MapDelete(m, k) == SelectSeq(m, LAMBDA e : e.key # k)

MapValues(m) == [i \in DOMAIN m |-> m[i].val]

\* new Map(entries): later entries with the same key replace the value.
RECURSIVE MapFrom(_, _)
MapFrom(entries, m) ==
  IF entries = <<>> THEN m
  ELSE MapFrom(Tail(entries), MapSet(m, Head(entries).key, Head(entries).val))

(***************************************************************************)
(* CSV headers of the localized build (fixed order).                       *)
(***************************************************************************)
H_ID == <<"I", "D">>
H_ISBN == <<"I", "S", "B", "N", "k:ko", "k:-", "k:do">>
H_MAGAZINE == <<"k:zatsu", "k:shi", "k:ko", "k:-", "k:do">>
H_TITLE == <<"k:ta", "k:i", "k:to", "k:ru">>
H_AUTHOR == <<"k:cho", "k:sha">>
H_PUBLISHER == <<"k:shutsu", "k:pan", "k:yashiro">>
H_YEAR == <<"k:nen">>
H_TIMESTAMP == <<"k:ta", "k:i", "k:mu", "k:su", "k:ta", "k:n", "k:pu">>
H_COVER == <<"k:hyou", "k:kami">>
H_LOCATION == <<"k:ba", "k:sho">>
H_STATUS == <<"k:jou", "k:tai">>
H_NOTE == <<"k:me", "k:mo">>
H_TAGS == <<"k:ta", "k:gu">>

JP_HEADERS_NO_ID_NO_TAG ==
  <<H_ISBN, H_MAGAZINE, H_TITLE, H_AUTHOR, H_PUBLISHER, H_YEAR, H_TIMESTAMP,
    H_COVER, H_LOCATION, H_STATUS, H_NOTE>>

JP_HEADERS_NO_ID == JP_HEADERS_NO_ID_NO_TAG \o <<H_TAGS>>

JP_HEADERS_NO_TAG == <<H_ID>> \o JP_HEADERS_NO_ID_NO_TAG

JP_HEADERS == <<H_ID>> \o JP_HEADERS_NO_ID_NO_TAG \o <<H_TAGS>>

\* String.prototype.normalize("NFKC") on the characters of the model:
\* full-width ASCII forms and half-width kana fold to the plain character.
NFKC_Pairs ==
  {<<"w:I", "I">>, <<"w:D", "D">>, <<"w:S", "S">>, <<"w:B", "B">>,
   <<"w:N", "N">>, <<"h:ko", "k:ko">>, <<"h:do", "k:do">>, <<"w: ", " ">>}

NFKC_Char(c) ==
  IF \E p \in NFKC_Pairs : p[1] = c
  THEN (CHOOSE p \in NFKC_Pairs : p[1] = c)[2]
  ELSE c

NFKC(s) == [i \in DOMAIN s |-> NFKC_Char(s[i])]

normalizeHeaderCell(s) == NFKC(SelectSeq(s, LAMBDA c : ~IsSpace(c)))

HeaderVariants ==
  <<[kind |-> "new", arr |-> JP_HEADERS],
    [kind |-> "no_tag", arr |-> JP_HEADERS_NO_TAG],
    [kind |-> "no_id", arr |-> JP_HEADERS_NO_ID],
    [kind |-> "no_id_no_tag", arr |-> JP_HEADERS_NO_ID_NO_TAG]>>

\* A test that looks for the variant's labels anywhere in the row (not the
\* source's: the source compares position by position).
VariantOkAnyOrder(norm, arr) ==
  /\ Len(norm) >= Len(arr)
  /\ \A i \in DOMAIN arr :
       \E j \in DOMAIN norm : norm[j] = normalizeHeaderCell(arr[i])

\* The test of one variant against the normalized header row.
VariantOk(norm, arr) ==
  /\ Len(norm) >= Len(arr)
  /\ \A i \in DOMAIN arr : norm[i] = normalizeHeaderCell(arr[i])

\* The column map of a variant: label -> 1-based index, 0 for "absent"
\* (the source stores 0-based indices and -1).
VariantMap(arr) == [h \in Range(JP_HEADERS) |-> IndexOf(arr, h)]

\* The error's text: the accepted first rows it lists.
HeaderErrorMessage ==
  <<JP_HEADERS, JP_HEADERS_NO_TAG, JP_HEADERS_NO_ID, JP_HEADERS_NO_ID_NO_TAG>>

\* A resolver that falls back to the newest layout instead of throwing (not
\* the source's).
detectHeaderMapLenient(headerRow) ==
  [ok |-> TRUE, kind |-> "new", map |-> VariantMap(JP_HEADERS),
   message |-> <<>>]

\* ok = FALSE stands for the thrown Error.
detectHeaderMap(headerRow) ==
  LET norm == [i \in DOMAIN headerRow |-> normalizeHeaderCell(headerRow[i])]
      hits == {i \in DOMAIN HeaderVariants : VariantOk(norm, HeaderVariants[i].arr)}
  IN  IF hits # {}
      THEN LET v == HeaderVariants[CHOOSE i \in hits : \A j \in hits : i <= j]
           IN  [ok |-> TRUE, kind |-> v.kind, map |-> VariantMap(v.arr),
                message |-> <<>>]
      ELSE [ok |-> FALSE, kind |-> "error", map |-> VariantMap(<<>>),
            message |-> HeaderErrorMessage]

(***************************************************************************)
(* Decoder of the localized build.                                         *)
(***************************************************************************)
K_MAGAZINE == <<"m", "a", "g", "a", "z", "i", "n", "e", "_", "c", "o", "d", "e">>
K_TIMESTAMP == <<"t", "i", "m", "e", "s", "t", "a", "m", "p">>
K_COVER == <<"c", "o", "v", "e", "r">>

\* getCell: the trimmed cell of column key, "" when the column is absent or
\* the row is too short.
getCell(map, r, key) ==
  IF map[key] > 0 /\ map[key] <= Len(r) THEN trim(r[map[key]]) ELSE <<>>

\* The extras object of a decoded row: only the non-empty cells.
L_RowExtras(map, r) ==
  LET cells == [k \in {K_MAGAZINE, K_TIMESTAMP, K_COVER} |->
                  IF k = K_MAGAZINE THEN getCell(map, r, H_MAGAZINE)
                  ELSE IF k = K_TIMESTAMP THEN getCell(map, r, H_TIMESTAMP)
                  ELSE getCell(map, r, H_COVER)]
      keys == {k \in DOMAIN cells : cells[k] # <<>>}
  IN  [k \in keys |-> cells[k]]

\* One row of fromCSV_JP's loop: the decoded books (none or one) and the
\* uuid counter afterwards.  emptyBook() draws uuid n, "csvId || uuid()"
\* the next one.
L_DecodeRow(map, r, n) ==
  LET csvId == getCell(map, r, H_ID)
      isbnRaw == L_normalizeIsbn(getCell(map, r, H_ISBN))
      title == getCell(map, r, H_TITLE)
      status == getCell(map, r, H_STATUS)
  IN  IF \A i \in DOMAIN r : trim(r[i]) = <<>>
      THEN [list |-> <<>>, n |-> n]
      ELSE IF isbnRaw = <<>> /\ title = <<>> /\ csvId = <<>>
      THEN [list |-> <<>>, n |-> n]
      ELSE [list |->
              <<[emptyBook(n) EXCEPT
                   !.id = IF csvId # <<>> THEN csvId ELSE uuid(n + 1),
                   !.title = title,
                   !.author = getCell(map, r, H_AUTHOR),
                   !.isbn = isbnRaw,
                   !.year = getCell(map, r, H_YEAR),
                   !.publisher = getCell(map, r, H_PUBLISHER),
                   !.tags = L_parseTags(getCell(map, r, H_TAGS)),
                   !.location = getCell(map, r, H_LOCATION),
                   !.status = IF status = STATUS_OUT THEN STATUS_OUT ELSE STATUS_HELD,
                   !.note = getCell(map, r, H_NOTE),
                   !.extras = L_RowExtras(map, r)]>>,
            n |-> IF csvId # <<>> THEN n + 1 ELSE n + 2]

RECURSIVE L_DecodeRows(_, _, _)
L_DecodeRows(map, rows, n) ==
  IF rows = <<>> THEN [list |-> <<>>, n |-> n]
  ELSE LET one == L_DecodeRow(map, Head(rows), n)
           rest == L_DecodeRows(map, Tail(rows), one.n)
       IN  [list |-> one.list \o rest.list, n |-> rest.n]

\* ok = FALSE: detectHeaderMap threw; message is the error's text.
fromCSV_JP(text, n) ==
  LET rows == parseCSV(text)
  IN  IF rows = <<>> THEN [ok |-> TRUE, list |-> <<>>, n |-> n, message |-> <<>>]
      ELSE LET prof == detectHeaderMap(Head(rows))
           IN  IF ~prof.ok
               THEN [ok |-> FALSE, list |-> <<>>, n |-> n, message |-> prof.message]
               ELSE LET dec == L_DecodeRows(prof.map, Tail(rows), n)
                    IN  [ok |-> TRUE, list |-> dec.list, n |-> dec.n,
                         message |-> <<>>]

(***************************************************************************)
(* Decoder of the generic build.                                           *)
(***************************************************************************)
G_ID == <<"i", "d">>
G_TITLE == <<"t", "i", "t", "l", "e">>
G_AUTHOR == <<"a", "u", "t", "h", "o", "r">>
G_ISBN == <<"i", "s", "b", "n">>
G_YEAR == <<"y", "e", "a", "r">>
G_PUBLISHER == <<"p", "u", "b", "l", "i", "s", "h", "e", "r">>
G_TAGS == <<"t", "a", "g", "s">>
G_LOCATION == <<"l", "o", "c", "a", "t", "i", "o", "n">>
G_STATUS == <<"s", "t", "a", "t", "u", "s">>
G_NOTE == <<"n", "o", "t", "e">>

G_HEADER ==
  <<G_ID, G_TITLE, G_AUTHOR, G_ISBN, G_YEAR, G_PUBLISHER, G_TAGS, G_LOCATION,
    G_STATUS, G_NOTE>>

\* get(k): the cell under the first header cell equal to k, "" without such
\* a column.  A cell beyond the row's end is undefined in the source; it is
\* the empty text here.
G_get(header, r, k) ==
  IF IndexOf(header, k) > 0 /\ IndexOf(header, k) <= Len(r)
  THEN r[IndexOf(header, k)]
  ELSE <<>>

G_RowExtras(header, r) ==
  [k \in Range(header) \ Range(G_HEADER) |-> G_get(header, r, k)]

\* The map callback of fromCSV: emptyBook() draws uuid n, "get('id') ||
\* uuid()" the next one.
G_DecodeRow(header, r, n) ==
  LET csvId == G_get(header, r, G_ID)
  IN  [book |->
         [emptyBook(n) EXCEPT
            !.id = IF csvId # <<>> THEN csvId ELSE uuid(n + 1),
            !.title = G_get(header, r, G_TITLE),
            !.author = G_get(header, r, G_AUTHOR),
            !.isbn = G_normalizeIsbn(G_get(header, r, G_ISBN)),
            !.year = G_get(header, r, G_YEAR),
            !.publisher = G_get(header, r, G_PUBLISHER),
            !.tags = G_parseTags(G_get(header, r, G_TAGS)),
            !.location = G_get(header, r, G_LOCATION),
            !.status = IF G_get(header, r, G_STATUS) = STATUS_OUT
                       THEN STATUS_OUT ELSE STATUS_HELD,
            !.note = G_get(header, r, G_NOTE),
            !.extras = G_RowExtras(header, r)],
       n |-> IF csvId # <<>> THEN n + 1 ELSE n + 2]

RECURSIVE G_DecodeRows(_, _, _)
G_DecodeRows(header, rows, n) ==
  IF rows = <<>> THEN [list |-> <<>>, n |-> n]
  ELSE IF Len(Head(rows)) <= 1 THEN G_DecodeRows(header, Tail(rows), n)
  ELSE LET one == G_DecodeRow(header, Head(rows), n)
           rest == G_DecodeRows(header, Tail(rows), one.n)
           keep == one.book.isbn # <<>> \/ one.book.title # <<>>
       IN  [list |-> (IF keep THEN <<one.book>> ELSE <<>>) \o rest.list,
            n |-> rest.n]

fromCSV(text, n) ==
  LET rows == parseCSV(text)
      header == IF rows = <<>> THEN <<>> ELSE Head(rows)
  IN  G_DecodeRows(header, IF rows = <<>> THEN <<>> ELSE Tail(rows), n)

(***************************************************************************)
(* Fill-blanks merge of the generic build.                                 *)
(***************************************************************************)
\* Array.from(new Set(s)): first occurrences, in order.
RECURSIVE Dedupe(_, _)
Dedupe(s, seen) ==
  IF s = <<>> THEN <<>>
  ELSE IF Head(s) \in seen THEN Dedupe(Tail(s), seen)
  ELSE <<Head(s)>> \o Dedupe(Tail(s), seen \cup {Head(s)})

\* A fill that lets every incoming value win (not the source's).
FillBlankAlways(cur, inc) == IF ~isEmpty(inc) THEN inc ELSE cur

\* One text field: "if (isEmpty(out[k]) && !isEmpty(inc)) out[k] = inc".
FillBlank(cur, inc) == IF isEmpty(cur) /\ ~isEmpty(inc) THEN inc ELSE cur

\* The extras of the merged record.
FillExtras(ex, inc) ==
  LET filled == {k \in DOMAIN inc :
                   (k \notin DOMAIN ex \/ isEmpty(ex[k])) /\ ~isEmpty(inc[k])}
  IN  [k \in (DOMAIN ex) \cup filled |-> IF k \in filled THEN inc[k] ELSE ex[k]]

mergeFillBlanks(existing, incoming) ==
  LET filled ==
        [existing EXCEPT
           !.tags = Dedupe(existing.tags \o incoming.tags, {}),
           !.title = FillBlank(existing.title, incoming.title),
           !.author = FillBlank(existing.author, incoming.author),
           !.isbn = FillBlank(existing.isbn, incoming.isbn),
           !.year = FillBlank(existing.year, incoming.year),
           !.publisher = FillBlank(existing.publisher, incoming.publisher),
           !.location = FillBlank(existing.location, incoming.location),
           !.note = FillBlank(existing.note, incoming.note),
           !.extras = FillExtras(existing.extras, incoming.extras),
           !.status = IF ~isEmpty(incoming.status) THEN incoming.status
                      ELSE existing.status]
  IN  [filled EXCEPT
         !.isbn = IF ~isEmpty(filled.isbn) THEN G_normalizeIsbn(filled.isbn)
                  ELSE filled.isbn]

(***************************************************************************)
(* The merge loops of handleImport (the updater passed to setBooks).       *)
(* The loop's variables: byId, byIsbn, the counters, the uuid counter n,   *)
(* and two history counters read by no operation: matched (rows that found *)
(* a target) and changed (rows whose merged record differs from their      *)
(* target in some field).                                                  *)
(***************************************************************************)
IdEntries(prev) == [i \in DOMAIN prev |-> [key |-> prev[i].id, val |-> prev[i]]]

\* Localized: new Map(prev.filter(b => b.isbn).map(b => [normalizeIsbn(b.isbn), b]))
L_IsbnEntries(prev) ==
  LET withIsbn == SelectSeq(prev, LAMBDA b : b.isbn # <<>>)
  IN  [i \in DOMAIN withIsbn |->
         [key |-> L_normalizeIsbn(withIsbn[i].isbn), val |-> withIsbn[i]]]

L_LoopInit(prev, n) ==
  [byId |-> MapFrom(IdEntries(prev), <<>>),
   byIsbn |-> MapFrom(L_IsbnEntries(prev), <<>>),
   added |-> 0, updated |-> 0, skipped |-> 0, idConflicts |-> 0, n |-> n,
   matched |-> 0, changed |-> 0]

\* "updated++" of the localized loop: every matched row is counted.
L_CountUpdated(updated, target, merged) == updated + 1

\* The target of a row: the id match first, then the ISBN match.
L_FindTarget(st, csvId, keyIsbn) ==
  LET byIdHit == IF csvId # <<>> THEN MapGet(st.byId, csvId) ELSE <<>>
  IN  IF byIdHit # <<>> THEN byIdHit
      ELSE IF keyIsbn # <<>> THEN MapGet(st.byIsbn, keyIsbn)
      ELSE <<>>

\* The overwrite merge: every field from the row, extras shallow-merged.
L_Merged(target, inc, nextId, keyIsbn) ==
  [target EXCEPT
     !.id = nextId,
     !.title = inc.title,
     !.author = inc.author,
     !.isbn = IF keyIsbn # <<>> THEN keyIsbn ELSE inc.isbn,
     !.year = inc.year,
     !.publisher = inc.publisher,
     !.tags = inc.tags,
     !.location = inc.location,
     !.status = inc.status,
     !.note = inc.note,
     !.extras = SpreadExtras(target.extras, inc.extras)]

L_ImportRow(st, inc) ==
  LET keyIsbn == L_normalizeIsbn(inc.isbn)
      csvId == trim(inc.id)
      target == L_FindTarget(st, csvId, keyIsbn)
  IN  IF target = <<>>
      THEN LET newRec == [inc EXCEPT
                            !.id = IF csvId # <<>> THEN csvId ELSE uuid(st.n + 1),
                            !.isbn = IF keyIsbn # <<>> THEN keyIsbn ELSE inc.isbn]
               byId1 == MapSet(st.byId, newRec.id, newRec)
           IN  [st EXCEPT
                  !.byId = byId1,
                  !.byIsbn = IF newRec.isbn # <<>>
                             THEN MapSet(@, L_normalizeIsbn(newRec.isbn), newRec)
                             ELSE @,
                  !.added = @ + 1,
                  !.n = IF csvId # <<>> THEN @ + 1 ELSE @ + 2]
      ELSE LET t == target[1]
               keep == csvId = <<>> \/ csvId = t.id
               conflict == ~keep /\ MapHas(st.byId, csvId)
               adopt == ~keep /\ ~conflict
               nextId == IF adopt THEN csvId ELSE t.id
               byId0 == IF adopt THEN MapDelete(st.byId, t.id) ELSE st.byId
               merged == L_Merged(t, inc, nextId, keyIsbn)
           IN  [st EXCEPT
                  !.byId = MapSet(byId0, merged.id, merged),
                  !.byIsbn = IF merged.isbn # <<>>
                             THEN MapSet(@, L_normalizeIsbn(merged.isbn), merged)
                             ELSE @,
                  !.idConflicts = IF conflict THEN @ + 1 ELSE @,
                  !.updated = L_CountUpdated(@, t, merged),
                  !.matched = @ + 1,
                  !.changed = IF Fields(merged) # Fields(t) THEN @ + 1 ELSE @]

RECURSIVE L_ImportLoop(_, _)
L_ImportLoop(st, incoming) ==
  IF incoming = <<>> THEN st
  ELSE L_ImportLoop(L_ImportRow(st, Head(incoming)), Tail(incoming))

\* Generic: "if (b.isbn) byIsbn.set(normalizeIsbn(b.isbn), b)"
G_IsbnEntries(prev) ==
  LET withIsbn == SelectSeq(prev, LAMBDA b : b.isbn # <<>>)
  IN  [i \in DOMAIN withIsbn |->
         [key |-> G_normalizeIsbn(withIsbn[i].isbn), val |-> withIsbn[i]]]

G_LoopInit(prev, n) ==
  [byId |-> MapFrom(IdEntries(prev), <<>>),
   byIsbn |-> MapFrom(G_IsbnEntries(prev), <<>>),
   added |-> 0, updated |-> 0, skipped |-> 0, idConflicts |-> 0, n |-> n,
   matched |-> 0, changed |-> 0]

\* The target of a row: the ISBN match first, then the id match.
G_FindTarget(st, incId, keyIsbn) ==
  LET byIsbnHit == IF keyIsbn # <<>> THEN MapGet(st.byIsbn, keyIsbn) ELSE <<>>
  IN  IF byIsbnHit # <<>> THEN byIsbnHit ELSE MapGet(st.byId, incId)

\* JSON.stringify(target) !== JSON.stringify(merged): merged is a spread of
\* target, so the texts differ exactly when some field's value does.
G_Differs(target, merged) == Fields(target) # Fields(merged)

G_ImportRow(st, inc) ==
  LET keyIsbn == G_normalizeIsbn(inc.isbn)
      target == G_FindTarget(st, inc.id, keyIsbn)
  IN  IF target = <<>>
      THEN LET newRec == [inc EXCEPT
                            !.id = IF inc.id # <<>> THEN inc.id ELSE uuid(st.n + 1),
                            !.isbn = IF keyIsbn # <<>> THEN keyIsbn ELSE inc.isbn,
                            !.status = IF inc.status = STATUS_OUT THEN STATUS_OUT
                                       ELSE STATUS_HELD]
               n1 == IF inc.id # <<>> THEN st.n + 1 ELSE st.n + 2
           IN  IF newRec.isbn = <<>> /\ newRec.title = <<>>
               THEN [st EXCEPT !.skipped = @ + 1, !.n = n1]
               ELSE [st EXCEPT
                       !.byId = MapSet(@, newRec.id, newRec),
                       !.byIsbn = IF newRec.isbn # <<>>
                                  THEN MapSet(@, newRec.isbn, newRec) ELSE @,
                       !.added = @ + 1,
                       !.n = n1]
      ELSE LET t == target[1]
               merged == mergeFillBlanks(t, inc)
           IN  IF G_Differs(t, merged)
               THEN [st EXCEPT
                       !.byId = MapSet(@, merged.id, merged),
                       !.byIsbn = IF merged.isbn # <<>>
                                  THEN MapSet(@, merged.isbn, merged) ELSE @,
                       !.updated = @ + 1,
                       !.matched = @ + 1,
                       !.changed = @ + 1]
               ELSE [st EXCEPT !.matched = @ + 1]

RECURSIVE G_ImportLoop(_, _)
G_ImportLoop(st, incoming) ==
  IF incoming = <<>> THEN st
  ELSE G_ImportLoop(G_ImportRow(st, Head(incoming)), Tail(incoming))

(***************************************************************************)
(* Encoder helpers (csvEscape) and the texts of the files that are         *)
(* imported: a file is written as its rows of cells, each cell escaped and *)
(* the cells joined with commas, the rows with line feeds.                 *)
(***************************************************************************)
RECURSIVE DoubleQuotes(_)
DoubleQuotes(v) ==
  IF v = <<>> THEN <<>>
  ELSE (IF Head(v) = "\"" THEN <<"\"", "\"">> ELSE <<Head(v)>>)
       \o DoubleQuotes(Tail(v))

G_csvEscape(v) ==
  IF \E i \in DOMAIN v : v[i] \in {"\"", ",", "\n"}
  THEN <<"\"">> \o DoubleQuotes(v) \o <<"\"">>
  ELSE v

L_csvEscape(v) ==
  IF \E i \in DOMAIN v : v[i] \in {"\"", ",", "\r", "\n"}
  THEN <<"\"">> \o DoubleQuotes(v) \o <<"\"">>
  ELSE v

CsvLine(cells) == Join([i \in DOMAIN cells |-> L_csvEscape(cells[i])], <<",">>)

CsvText(rows) == Join([i \in DOMAIN rows |-> CsvLine(rows[i])], <<"\n">>)

\* b.extras?.[k] ?? "".
ExtrasGet(e, k) == IF k \in DOMAIN e THEN e[k] ELSE <<>>

\* The members of a finite set as a sequence, in an order fixed per set.
RECURSIVE SetToSeq(_)
SetToSeq(S) ==
  IF S = {} THEN <<>>
  ELSE LET x == CHOOSE y \in S : TRUE IN <<x>> \o SetToSeq(S \ {x})

\* extraKeys of toCSV: every extras key of the catalogue, once.  (The
\* source lists them in order of first appearance; fromCSV finds columns by
\* name, so the order of these columns does not reach the decoded books.)
G_ExtraKeys(list) == SetToSeq(UNION {DOMAIN list[i].extras : i \in DOMAIN list})

\* toCSV: the header cells joined as they are, then one line per book with
\* every cell escaped; tags joined with ";".
toCSV(list) ==
  LET extraKeys == G_ExtraKeys(list)
      line(b) ==
        Join([i \in 1..(Len(G_HEADER) + Len(extraKeys)) |->
                G_csvEscape(
                  (<<b.id, b.title, b.author, b.isbn, b.year, b.publisher,
                     Join(b.tags, <<";">>), b.location, b.status, b.note>>
                   \o [k \in DOMAIN extraKeys |->
                         ExtrasGet(b.extras, extraKeys[k])])[i])],
             <<",">>)
  IN  Join(<<Join(G_HEADER \o extraKeys, <<",">>)>>
           \o [i \in DOMAIN list |-> line(list[i])], <<"\n">>)

\* toCSV_JP: the header row JP_HEADERS, then one line per book in that
\* column order.
toCSV_JP(list) ==
  LET line(b) ==
        Join([i \in DOMAIN JP_HEADERS |->
                L_csvEscape(
                  <<b.id, b.isbn, ExtrasGet(b.extras, K_MAGAZINE), b.title,
                    b.author, b.publisher, b.year,
                    ExtrasGet(b.extras, K_TIMESTAMP),
                    ExtrasGet(b.extras, K_COVER), b.location, b.status,
                    b.note, Join(b.tags, <<";">>)>>[i])],
             <<",">>)
  IN  Join(<<Join(JP_HEADERS, <<",">>)>>
           \o [i \in DOMAIN list |-> line(list[i])], <<"\n">>)

(***************************************************************************)
(* State.                                                                  *)
(*   app          which build runs: "generic" or "localized"               *)
(*   books        the catalogue (useState books)                           *)
(*   stored       localStorage's copy, written by the save effect          *)
(*   reading      texts of the files a FileReader is still reading         *)
(*   alertMsg     the last alert() shown                                   *)
(*   editing      the open EditDialog: << >> or <<[initial, b,             *)
(*                fromCatalog]>>; fromCatalog is a history field, read by  *)
(*                no operation: the dialog was opened on a catalogue row   *)
(*   selectedIds  the bulk-delete selection (localized)                    *)
(*   nextUuid     number of the next uuid() drawn                          *)
(*   steps        user actions taken so far (bounds the run)               *)
(*   lastImport   history: the import that ran its merge loop last, if no  *)
(*                other operation came after it (its text, the catalogue   *)
(*                before it, the decoded rows, the rows matched and        *)
(*                changed, and whether the import before it read the same  *)
(*                text)                                                    *)
(*   hdrIn/hdrOut a header row and detectHeaderMap's answer to it          *)
(*                (SpecHdr)                                                *)
(*   mExisting, mIncoming, mOut                                            *)
(*                two records and mergeFillBlanks' result (SpecMerge)      *)
(*   codec        a run of the CSV encoder and decoder (SpecDecode,        *)
(*                SpecRoundTrip)                                           *)
(*   isbnIn/isbnOut a text and normalizeIsbn's answer to it (SpecIsbn)     *)
(*   page         "unmounted" before the first render, then "mounted", or  *)
(*                "failed" when the render threw                           *)
(*   atSelect     for each file being read, the catalogue as it was when   *)
(*                the file was chosen (what a handler's closure would hold)*)
(*   tagsIn/tagsOut a text and parseTags' answer to it (SpecTags)          *)
(*   lookup       the ISBN lookup of the open dialog (generic)             *)
(*   columns      the column-visibility list (useState columns)            *)
(*   colStored    localStorage's copy of it: << >> or <<list>>             *)
(*   escIn/escOut a row of cells and the tokenizer's answer to its         *)
(*                escaped line (SpecEsc)                                   *)
(***************************************************************************)
\* What localStorage holds under the catalogue's key: nothing, a text that
\* is not JSON, or a JSON document (of a catalogue, or of another value).
NoItem == [json |-> "absent", value |-> <<>>]

\* A save that writes the first record only.
saveFirstOnly(data) ==
  [json |-> "array", value |-> SubSeq(data, 1, IF data = <<>> THEN 0 ELSE 1)]

\* save(key, data): the item becomes JSON.stringify(data).
save(data) == [json |-> "array", value |-> data]

\* load(key, fallback): the fallback when there is no item or JSON.parse
\* throws, and otherwise whatever JSON.parse returns.
load(item, fallback) ==
  IF item.json \in {"absent", "invalid"}
  THEN [json |-> "array", value |-> fallback]
  ELSE item

(***************************************************************************)
(* The column-visibility list.  A column is [key, visible]; its label is   *)
(* shown and never read.  The key of an extras column is "extra:" followed *)
(* by the extras key.                                                      *)
(***************************************************************************)
ExtraColumnKey(k) == <<"e", "x", "t", "r", "a", ":">> \o k

Column(key, visible) == [key |-> key, visible |-> visible]

G_APP_DEFAULT_COLUMNS ==
  <<Column(G_ISBN, TRUE), Column(G_TITLE, TRUE), Column(G_AUTHOR, TRUE),
    Column(G_PUBLISHER, TRUE), Column(G_YEAR, TRUE), Column(G_LOCATION, TRUE),
    Column(G_STATUS, TRUE), Column(G_TAGS, TRUE), Column(G_NOTE, TRUE)>>

L_APP_DEFAULT_COLUMNS ==
  G_APP_DEFAULT_COLUMNS
  \o <<Column(ExtraColumnKey(K_COVER), FALSE),
       Column(ExtraColumnKey(K_MAGAZINE), FALSE),
       Column(ExtraColumnKey(K_TIMESTAMP), FALSE)>>

APP_DEFAULT_COLUMNS ==
  IF app = "generic" THEN G_APP_DEFAULT_COLUMNS ELSE L_APP_DEFAULT_COLUMNS

\* ensureExtraColumns(cols, books): cols followed by a hidden column for
\* every extras key of the catalogue that has none.  (The source adds them
\* in order of first appearance; here the order is the one G_ExtraKeys
\* fixes.)
ensureExtraColumns(cols, list) ==
  LET have == {cols[i].key : i \in DOMAIN cols}
      extras == G_ExtraKeys(list)
      missing == SelectSeq(extras, LAMBDA k : ExtraColumnKey(k) \notin have)
  IN  cols \o [i \in DOMAIN missing |-> Column(ExtraColumnKey(missing[i]), FALSE)]

\* loadColumns() ?? APP_DEFAULT_COLUMNS; the item is << >> (none) or <<cols>>.
loadColumns(item) == IF item = <<>> THEN APP_DEFAULT_COLUMNS ELSE item[1]

\* The effect that follows every render in which books changed (generic
\* build; the localized build has no such effect): setColumns(prev =>
\* ensureExtraColumns(prev, books)), saved when columns were added.
ColumnsEffect(cols, newBooks) ==
  LET next == IF app = "generic" THEN ensureExtraColumns(cols, newBooks)
              ELSE cols
  IN  /\ columns' = next
      /\ colStored' = IF next # cols THEN <<next>> ELSE colStored

\* An updater that worked from the catalogue of the moment the file was
\* chosen (the handler's closure) instead.
setBooksPrevStale(atSelection, current) == atSelection

\* The catalogue the setBooks updater of reader.onload works from: its
\* argument prev, the state at the time the updater runs.
setBooksPrev(atSelection, current) == current

NoAlert ==
  [kind |-> "none", added |-> 0, updated |-> 0, skipped |-> 0,
   idConflicts |-> 0, message |-> <<>>]

NoImport ==
  [valid |-> FALSE, text |-> <<>>, before |-> <<>>, incoming |-> <<>>,
   matched |-> 0, changed |-> 0, repeat |-> FALSE, selected |-> <<>>]

\* The history record of an import that ran its merge loop.
ImportRecord(text, before, incoming, st) ==
  [valid |-> TRUE, text |-> text, before |-> before, incoming |-> incoming,
   matched |-> st.matched, changed |-> st.changed,
   repeat |-> lastImport.valid /\ lastImport.text = text,
   selected |-> Head(atSelect)]

\* The checkbox of column i: setColumns(next); saveColumns(next).
toggleColumn ==
  /\ page = "mounted"
  /\ editing = <<>>
  /\ steps < MaxOps
  /\ \E i \in DOMAIN columns :
       columns' = [columns EXCEPT ![i].visible = ~@]
  /\ colStored' = <<columns'>>
  /\ steps' = steps + 1
  /\ lastImport' = NoImport
  /\ UNCHANGED <<app, books, stored, reading, alertMsg, editing, selectedIds,
                 nextUuid, hdrIn, hdrOut, mExisting, mIncoming, mOut, codec,
                 isbnIn, isbnOut, page, atSelect, tagsIn, tagsOut, lookup,
                 escIn, escOut>>

\* "Reset to defaults": setColumns(APP_DEFAULT_COLUMNS); saveColumns(...).
\* books does not change, so the effect above does not run.
resetColumns ==
  /\ page = "mounted"
  /\ editing = <<>>
  /\ steps < MaxOps
  /\ columns' = APP_DEFAULT_COLUMNS
  /\ colStored' = <<columns'>>
  /\ steps' = steps + 1
  /\ lastImport' = NoImport
  /\ UNCHANGED <<app, books, stored, reading, alertMsg, editing, selectedIds,
                 nextUuid, hdrIn, hdrOut, mExisting, mIncoming, mOut, codec,
                 isbnIn, isbnOut, page, atSelect, tagsIn, tagsOut, lookup,
                 escIn, escOut>>

\* The first render: useState(() => load(key, [])), then the memos over
\* books (books.forEach, books.filter), which throw when books is not an
\* array, and after a render that succeeded the save effect.
Mount ==
  /\ page = "unmounted"
  /\ LET v == load(stored, <<>>)
     IN  IF v.json = "array"
         THEN /\ books' = v.value
              /\ stored' = save(books')
              /\ ColumnsEffect(loadColumns(colStored), books')
              /\ page' = "mounted"
         ELSE /\ page' = "failed"
              /\ UNCHANGED <<books, stored, columns, colStored>>
  /\ UNCHANGED <<app, reading, alertMsg, editing, selectedIds, nextUuid, steps,
                 lastImport, hdrIn, hdrOut, mExisting, mIncoming, mOut, codec,
                 isbnIn, isbnOut, atSelect,
                 tagsIn, tagsOut, lookup, escIn, escOut>>

\* handleImport(file): the FileReader starts reading.
ChooseFile(Texts) ==
  /\ page = "mounted"
  /\ editing = <<>>
  /\ steps < MaxOps
  /\ reading = <<>>
  /\ \E t \in Texts : reading' = Append(reading, t)
  /\ atSelect' = Append(atSelect, books)
  /\ steps' = steps + 1
  /\ UNCHANGED <<app, books, stored, alertMsg, editing, selectedIds, nextUuid,
                 lastImport, hdrIn, hdrOut, mExisting, mIncoming, mOut, codec,
                 isbnIn, isbnOut, page,
                 tagsIn, tagsOut, lookup, columns, colStored, escIn, escOut>>

\* handleImport(file) while another file is still being read.  Either read
\* may finish first: the new file takes any place in the order of
\* completion.
InsertAt(s, pos, x) == SubSeq(s, 1, pos - 1) \o <<x>> \o SubSeq(s, pos, Len(s))

ChooseFileWhileReading(Texts) ==
  /\ page = "mounted"
  /\ editing = <<>>
  /\ steps < MaxOps
  /\ reading # <<>>
  /\ Len(reading) < MaxReading
  /\ \E t \in Texts, pos \in 1..(Len(reading) + 1) :
       /\ reading' = InsertAt(reading, pos, t)
       /\ atSelect' = InsertAt(atSelect, pos, books)
  /\ steps' = steps + 1
  /\ UNCHANGED <<app, books, stored, alertMsg, editing, selectedIds, nextUuid,
                 lastImport, hdrIn, hdrOut, mExisting, mIncoming, mOut, codec,
                 isbnIn, isbnOut, page,
                 tagsIn, tagsOut, lookup, columns, colStored, escIn, escOut>>

\* reader.onload of the localized build.
L_OnLoad ==
  /\ page = "mounted"
  /\ app = "localized"
  /\ reading # <<>>
  /\ LET txt == Head(reading)
         dec == fromCSV_JP(txt, nextUuid)
         prev == setBooksPrev(Head(atSelect), books)
         st == L_ImportLoop(L_LoopInit(prev, dec.n), dec.list)
     IN  /\ reading' = Tail(reading)
         /\ atSelect' = Tail(atSelect)
         /\ IF ~dec.ok
            THEN /\ alertMsg' = [NoAlert EXCEPT !.kind = "error",
                                                !.message = dec.message]
                 /\ UNCHANGED <<books, stored, nextUuid>>
                 /\ lastImport' = NoImport
            ELSE IF dec.list = <<>>
            THEN /\ alertMsg' = [NoAlert EXCEPT !.kind = "empty"]
                 /\ nextUuid' = dec.n
                 /\ UNCHANGED <<books, stored>>
                 /\ lastImport' = NoImport
            ELSE /\ books' = MapValues(st.byId)
                 /\ stored' = save(books')
                 /\ nextUuid' = st.n
                 /\ alertMsg' = [NoAlert EXCEPT !.kind = "imported",
                                                !.added = st.added,
                                                !.updated = st.updated,
                                                !.idConflicts = st.idConflicts]
                 /\ lastImport' = ImportRecord(txt, prev, dec.list, st)
  /\ UNCHANGED <<app, editing, selectedIds, steps, hdrIn, hdrOut, mExisting,
                 mIncoming, mOut, codec, isbnIn, isbnOut, page,
                 tagsIn, tagsOut, lookup, columns, colStored, escIn, escOut>>

\* reader.onload of the generic build.
G_OnLoad ==
  /\ page = "mounted"
  /\ app = "generic"
  /\ reading # <<>>
  /\ LET txt == Head(reading)
         dec == fromCSV(txt, nextUuid)
         prev == setBooksPrev(Head(atSelect), books)
         st == G_ImportLoop(G_LoopInit(prev, dec.n), dec.list)
     IN  /\ reading' = Tail(reading)
         /\ atSelect' = Tail(atSelect)
         /\ IF dec.list = <<>>
            THEN /\ alertMsg' = [NoAlert EXCEPT !.kind = "empty"]
                 /\ nextUuid' = dec.n
                 /\ UNCHANGED <<books, stored, columns, colStored>>
                 /\ lastImport' = NoImport
            ELSE /\ books' = MapValues(st.byId)
                 /\ stored' = save(books')
                 /\ ColumnsEffect(columns, books')
                 /\ nextUuid' = st.n
                 /\ alertMsg' = [NoAlert EXCEPT !.kind = "imported",
                                                !.added = st.added,
                                                !.updated = st.updated,
                                                !.skipped = st.skipped]
                 /\ lastImport' = ImportRecord(txt, prev, dec.list, st)
  /\ UNCHANGED <<app, editing, selectedIds, steps, hdrIn, hdrOut, mExisting,
                 mIncoming, mOut, codec, isbnIn, isbnOut, page,
                 tagsIn, tagsOut, lookup, escIn, escOut>>

(***************************************************************************)
(* The edit dialog.  It is modal: while it is open the page's buttons      *)
(* cannot be used, but a FileReader that was started before still          *)
(* completes.                                                              *)
(***************************************************************************)
\* "+ add": setEditing(emptyBook()).
FormOpenNew ==
  /\ page = "mounted"
  /\ editing = <<>>
  /\ steps < MaxOps
  /\ editing' = <<[initial |-> emptyBook(nextUuid), b |-> emptyBook(nextUuid),
                    fromCatalog |-> FALSE]>>
  /\ nextUuid' = nextUuid + 1
  /\ steps' = steps + 1
  /\ lastImport' = NoImport
  /\ UNCHANGED <<app, books, stored, reading, alertMsg, selectedIds, hdrIn,
                 hdrOut, mExisting, mIncoming, mOut, codec, isbnIn, isbnOut,
                 page, atSelect,
                 tagsIn, tagsOut, lookup, columns, colStored, escIn, escOut>>

\* The edit button of a row: setEditing(b).
FormOpenEdit ==
  /\ page = "mounted"
  /\ editing = <<>>
  /\ steps < MaxOps
  /\ \E i \in DOMAIN books :
       editing' = <<[initial |-> books[i], b |-> books[i],
                     fromCatalog |-> TRUE]>>
  /\ steps' = steps + 1
  /\ lastImport' = NoImport
  /\ UNCHANGED <<app, books, stored, reading, alertMsg, selectedIds, nextUuid,
                 hdrIn, hdrOut, mExisting, mIncoming, mOut, codec, isbnIn,
                 isbnOut, page, atSelect,
                 tagsIn, tagsOut, lookup, columns, colStored, escIn, escOut>>

\* onChange of the title, ISBN and (localized) ID inputs.  The title input
\* is "required": the form cannot be submitted while it is empty, so the
\* typed title is taken non-empty.
FormType(Ids, Isbns, Titles) ==
  /\ page = "mounted"
  /\ editing # <<>>
  /\ \E id \in Ids, isbn \in Isbns, title \in Titles :
       editing' = <<[editing[1] EXCEPT
                       !.b.id = IF app = "localized" THEN id ELSE @,
                       !.b.isbn = isbn,
                       !.b.title = title]>>
  /\ editing'[1].b.title # <<>>
  /\ editing' # editing
  /\ UNCHANGED <<app, books, stored, reading, alertMsg, selectedIds, nextUuid,
                 steps, lastImport, hdrIn, hdrOut, mExisting, mIncoming, mOut,
                 codec, isbnIn, isbnOut, page, atSelect,
                 tagsIn, tagsOut, lookup, columns, colStored, escIn, escOut>>

\* ScanDialog's onDetected: the digits of the decoded barcode become the
\* form's ISBN.
FormScan(Codes) ==
  /\ page = "mounted"
  /\ editing # <<>>
  /\ \E code \in Codes :
       LET cleaned == StripNonDigits(code)
       IN  /\ cleaned # <<>>
           /\ editing' = <<[editing[1] EXCEPT !.b.isbn = cleaned]>>
  /\ editing' # editing
  /\ UNCHANGED <<app, books, stored, reading, alertMsg, selectedIds, nextUuid,
                 steps, lastImport, hdrIn, hdrOut, mExisting, mIncoming, mOut,
                 codec, isbnIn, isbnOut, page, atSelect,
                 tagsIn, tagsOut, lookup, columns, colStored, escIn, escOut>>

FormClose ==
  /\ page = "mounted"
  /\ editing # <<>>
  /\ editing' = <<>>
  /\ lookup' = [lookup EXCEPT !.alive = FALSE]
  /\ UNCHANGED <<app, books, stored, reading, alertMsg, selectedIds, nextUuid,
                 steps, lastImport, hdrIn, hdrOut, mExisting, mIncoming, mOut,
                 codec, isbnIn, isbnOut, page, atSelect,
                 tagsIn, tagsOut, columns, colStored, escIn, escOut>>

\* upsertBook of the generic build.
G_upsertBook(prev, book) ==
  IF \E i \in DOMAIN prev : prev[i].id = book.id
  THEN [prev EXCEPT ![CHOOSE i \in DOMAIN prev :
                        prev[i].id = book.id
                        /\ \A j \in 1..(i - 1) : prev[j].id # book.id] = book]
  ELSE <<book>> \o prev

\* onSubmit of the generic dialog, then onSave: upsertBook, setEditing(null).
G_FormSubmit ==
  /\ page = "mounted"
  /\ app = "generic"
  /\ editing # <<>>
  /\ editing[1].b.title # <<>>
  /\ LET b == editing[1].b
         book == [b EXCEPT !.tags = G_parseTags(Join(b.tags, <<";">>))]
     IN  /\ books' = G_upsertBook(books, book)
         /\ stored' = save(books')
         /\ ColumnsEffect(columns, books')
  /\ editing' = <<>>
  /\ lookup' = [lookup EXCEPT !.alive = FALSE]
  /\ lastImport' = NoImport
  /\ UNCHANGED <<app, reading, alertMsg, selectedIds, nextUuid, steps, hdrIn,
                 hdrOut, mExisting, mIncoming, mOut, codec, isbnIn, isbnOut,
                 page, atSelect,
                 tagsIn, tagsOut, escIn, escOut>>

\* The id the localized dialog submits: String(b.id || uuid()).trim().
L_SubmittedId(id, n) == trim(IF id # <<>> THEN id ELSE uuid(n))

\* upsertBook of the localized build; dup = TRUE is the refused save.
L_upsertBook(prev, book, prevId) ==
  LET dup == \E i \in DOMAIN prev : prev[i].id = book.id /\ prev[i].id # prevId
      byId == MapFrom(IdEntries(prev), <<>>)
  IN  IF dup THEN [dup |-> TRUE, books |-> prev]
      ELSE IF prevId # <<>> /\ prevId # book.id
      THEN [dup |-> FALSE,
            books |-> MapValues(MapSet(MapDelete(byId, prevId), book.id, book))]
      ELSE IF MapHas(byId, book.id)
      THEN [dup |-> FALSE, books |-> MapValues(MapSet(byId, book.id, book))]
      ELSE [dup |-> FALSE, books |-> <<book>> \o prev]

\* onSubmit of the localized dialog, then onSave.
L_FormSubmit ==
  /\ page = "mounted"
  /\ app = "localized"
  /\ editing # <<>>
  /\ editing[1].b.title # <<>>
  /\ LET b == editing[1].b
         book == [b EXCEPT !.id = L_SubmittedId(b.id, nextUuid),
                           !.isbn = L_normalizeIsbn(b.isbn),
                           !.tags = parseTagsArray(b.tags)]
         res == L_upsertBook(books, book, editing[1].initial.id)
     IN  /\ books' = res.books
         /\ stored' = save(books')
         /\ nextUuid' = IF b.id # <<>> THEN nextUuid ELSE nextUuid + 1
         /\ alertMsg' = IF res.dup THEN [NoAlert EXCEPT !.kind = "dup"]
                        ELSE alertMsg
  /\ editing' = <<>>
  /\ lastImport' = NoImport
  /\ UNCHANGED <<app, reading, selectedIds, steps, hdrIn, hdrOut, mExisting,
                 mIncoming, mOut, codec, isbnIn, isbnOut, page, atSelect,
                 tagsIn, tagsOut, lookup, columns, colStored, escIn, escOut>>

(***************************************************************************)
(* ISBN lookup of the generic dialog (autofillFromISBN, fetchBookByISBN).  *)
(* A service's answer is one of                                            *)
(*   "throws"  fetch rejected (no network)                                 *)
(*   "notOk"   a response whose ok flag is false                           *)
(*   "noItem"  a successful response that holds no item                    *)
(*   "item"    a successful response with an item; title, author,          *)
(*             publisher and year are the item's fields as the code reads  *)
(*             them, "" for a field the item lacks                         *)
(* lookup.alive tells whether the dialog that started the lookup is still  *)
(* open: setB of a closed dialog changes nothing.                          *)
(***************************************************************************)
Answer(kind, title, author, publisher, year) ==
  [kind |-> kind, title |-> title, author |-> author,
   publisher |-> publisher, year |-> year]

NoAnswer == Answer("none", <<>>, <<>>, <<>>, <<>>)

\* The texts of the two errors fetchBookByISBN throws.
MSG_ISBN_EMPTY == <<"k:isbn-ga-kara">>
MSG_NOT_FOUND == <<"k:shoshi-mitsukarazu">>

\* What the try blocks leave in g and o: << >> stands for null.
LookupHit(ans) == IF ans.kind = "item" THEN <<ans>> ELSE <<>>

\* g?.f || o?.f || "".
FirstField(g, o, f) ==
  IF g # <<>> /\ g[1][f] # <<>> THEN g[1][f]
  ELSE IF o # <<>> /\ o[1][f] # <<>> THEN o[1][f]
  ELSE <<>>

\* fetchBookByISBN(isbn) given the answers of the two services: thrown is
\* the Error's message, or << >> when merged is returned.
fetchBookByISBN(isbn, google, openbd) ==
  LET clean == StripNonDigits(isbn)
      g == LookupHit(google)
      o == LookupHit(openbd)
      merged == [title |-> FirstField(g, o, "title"),
                 author |-> FirstField(g, o, "author"),
                 publisher |-> FirstField(g, o, "publisher"),
                 year |-> FirstField(g, o, "year"),
                 isbn |-> clean]
  IN  IF clean = <<>> THEN [thrown |-> MSG_ISBN_EMPTY, info |-> merged]
      ELSE IF merged.title = <<>> /\ merged.author = <<>>
              /\ merged.publisher = <<>> /\ merged.year = <<>>
      THEN [thrown |-> MSG_NOT_FOUND, info |-> merged]
      ELSE [thrown |-> <<>>, info |-> merged]

LookupIdle ==
  [phase |-> "idle", alive |-> FALSE, isbn |-> <<>>, google |-> NoAnswer,
   openbd |-> NoAnswer, thrown |-> <<>>]

\* autofillFromISBN up to its await: with no digit in the ISBN field it
\* asks for one and ends.
autofillFromISBN ==
  /\ page = "mounted"
  /\ app = "generic"
  /\ editing # <<>>
  /\ lookup.phase # "pending"
  /\ LET isbn == StripNonDigits(editing[1].b.isbn)
     IN  IF isbn = <<>>
         THEN /\ alertMsg' = [NoAlert EXCEPT !.kind = "lookup_need_isbn"]
              /\ lookup' = LookupIdle
         ELSE /\ lookup' = [LookupIdle EXCEPT !.phase = "pending",
                                              !.alive = TRUE, !.isbn = isbn]
              /\ UNCHANGED alertMsg
  /\ UNCHANGED <<app, books, stored, reading, editing, selectedIds, nextUuid,
                 steps, lastImport, hdrIn, hdrOut, mExisting, mIncoming, mOut,
                 codec, isbnIn, isbnOut, page, atSelect, tagsIn, tagsOut,
                 columns, colStored, escIn, escOut>>

\* autofillFromISBN after its await: the two services have answered.  The
\* blank fields of the form are filled, or the catch shows the Error.
autofillSettles(Answers) ==
  /\ lookup.phase = "pending"
  /\ \E google \in Answers, openbd \in Answers :
       LET res == fetchBookByISBN(lookup.isbn, google, openbd)
           b == editing[1].b
       IN  /\ lookup' = [lookup EXCEPT !.phase = "done", !.google = google,
                                       !.openbd = openbd,
                                       !.thrown = res.thrown]
           /\ IF res.thrown # <<>>
              THEN /\ alertMsg' = [NoAlert EXCEPT !.kind = "lookup_failed",
                                                  !.message = res.thrown]
                   /\ UNCHANGED editing
              ELSE /\ UNCHANGED alertMsg
                   /\ editing' =
                        IF lookup.alive /\ editing # <<>>
                        THEN <<[editing[1] EXCEPT
                                  !.b.isbn = lookup.isbn,
                                  !.b.title = IF b.title # <<>> THEN b.title
                                              ELSE res.info.title,
                                  !.b.author = IF b.author # <<>> THEN b.author
                                               ELSE res.info.author,
                                  !.b.publisher = IF b.publisher # <<>>
                                                  THEN b.publisher
                                                  ELSE res.info.publisher,
                                  !.b.year = IF b.year # <<>> THEN b.year
                                             ELSE res.info.year]>>
                        ELSE editing
  /\ UNCHANGED <<app, books, stored, reading, selectedIds, nextUuid, steps,
                 lastImport, hdrIn, hdrOut, mExisting, mIncoming, mOut, codec,
                 isbnIn, isbnOut, page, atSelect, tagsIn, tagsOut, columns,
                 colStored, escIn, escOut>>

(***************************************************************************)
(* Deletion, selection, sample seeding, cloud pull.                        *)
(***************************************************************************)
\* A filter that drops the record and every record after it.
withoutIdAndAfter(prev, id) ==
  SubSeq(prev, 1, (CHOOSE i \in 0..Len(prev) :
                     /\ \A j \in 1..i : prev[j].id # id
                     /\ i < Len(prev) => prev[i + 1].id = id))

\* prev.filter((b) => b.id !== id).
withoutId(prev, id) == SelectSeq(prev, LAMBDA x : x.id # id)

\* prev.filter(b => !selectedIds.has(b.id)).
withoutIds(prev, ids) == SelectSeq(prev, LAMBDA x : x.id \notin ids)

\* removeBook(id) of a displayed row; ok is the answer to confirm().
removeBook ==
  /\ page = "mounted"
  /\ editing = <<>>
  /\ steps < MaxOps
  /\ \E i \in DOMAIN books, ok \in BOOLEAN :
       /\ books' = IF ok THEN withoutId(books, books[i].id) ELSE books
       /\ stored' = IF ok THEN save(books') ELSE stored
       /\ IF ok THEN ColumnsEffect(columns, books')
          ELSE UNCHANGED <<columns, colStored>>
  /\ steps' = steps + 1
  /\ lastImport' = NoImport
  /\ UNCHANGED <<app, reading, alertMsg, editing, selectedIds, nextUuid, hdrIn,
                 hdrOut, mExisting, mIncoming, mOut, codec, isbnIn, isbnOut,
                 page, atSelect,
                 tagsIn, tagsOut, lookup, escIn, escOut>>

\* toggleSelect(id) of a displayed row (localized).
toggleSelect ==
  /\ page = "mounted"
  /\ app = "localized"
  /\ editing = <<>>
  /\ steps < MaxOps
  /\ \E i \in DOMAIN books :
       selectedIds' = IF books[i].id \in selectedIds
                      THEN selectedIds \ {books[i].id}
                      ELSE selectedIds \cup {books[i].id}
  /\ steps' = steps + 1
  /\ lastImport' = NoImport
  /\ UNCHANGED <<app, books, stored, reading, alertMsg, editing, nextUuid,
                 hdrIn, hdrOut, mExisting, mIncoming, mOut, codec, isbnIn,
                 isbnOut, page, atSelect,
                 tagsIn, tagsOut, lookup, columns, colStored, escIn, escOut>>

\* The rows on display (the memo "filtered") under a tag filter and a status
\* filter, "" and "all" for none; the search box is empty.  The memo also
\* sorts the rows; the selection reads them as a set.
Filtered(list, tagFilter, statusFilter) ==
  SelectSeq(list, LAMBDA b :
    /\ (tagFilter # <<>> => tagFilter \in Range(b.tags))
    /\ (statusFilter # "all" => b.status = statusFilter))

\* toggleSelectAllFiltered (localized): the button is disabled while no row
\* is on display.
toggleSelectAllFiltered(TagFilters, StatusFilters) ==
  /\ page = "mounted"
  /\ app = "localized"
  /\ editing = <<>>
  /\ steps < MaxOps
  /\ \E tf \in TagFilters, sf \in StatusFilters :
       LET shown == {b.id : b \in Range(Filtered(books, tf, sf))}
       IN  /\ shown # {}
           /\ selectedIds' = IF shown \subseteq selectedIds
                              THEN selectedIds \ shown
                              ELSE selectedIds \cup shown
  /\ steps' = steps + 1
  /\ lastImport' = NoImport
  /\ UNCHANGED <<app, books, stored, reading, alertMsg, editing, nextUuid,
                 hdrIn, hdrOut, mExisting, mIncoming, mOut, codec, isbnIn,
                 isbnOut, page, atSelect, tagsIn, tagsOut, lookup, columns,
                 colStored, escIn, escOut>>

\* removeSelected (localized); ok is the answer to confirm().
removeSelected ==
  /\ page = "mounted"
  /\ app = "localized"
  /\ editing = <<>>
  /\ steps < MaxOps
  /\ selectedIds # {}
  /\ \E ok \in BOOLEAN :
       /\ books' = IF ok THEN withoutIds(books, selectedIds) ELSE books
       /\ selectedIds' = IF ok THEN {} ELSE selectedIds
       /\ stored' = IF ok THEN save(books') ELSE stored
  /\ steps' = steps + 1
  /\ lastImport' = NoImport
  /\ UNCHANGED <<app, reading, alertMsg, editing, nextUuid, hdrIn, hdrOut,
                 mExisting, mIncoming, mOut, codec, isbnIn, isbnOut, page,
                 atSelect,
                 tagsIn, tagsOut, lookup, columns, colStored, escIn, escOut>>

\* After the sample's three emptyBook() calls.
SAMPLE_COUNT == 3

\* handleSample (generic): three books in front of the catalogue.  The
\* sample's long texts are shortened to one token each; the ISBN, the tags'
\* number, the status and the extras keys are the source's.
SampleBooks(n) ==
  <<[emptyBook(n) EXCEPT
       !.title = <<"k:shouhi">>, !.author = <<"k:baudrillard">>,
       !.isbn = <<"9", "7", "8", "4", "4", "8", "0", "0", "9", "0", "4", "7", "4">>,
       !.year = <<"1", "9", "7", "0", "/", "2", "0", "0", "8">>,
       !.publisher = <<"k:chikuma">>,
       !.tags = <<<<"k:shakaigaku">>, <<"k:riron">>>>,
       !.location = <<"A", "-", "3">>, !.note = <<"k:fusen">>,
       !.extras = [k \in {<<"p", "r", "i", "c", "e">>} |->
                     <<"1", "1", "0", "0", " ", "J", "P", "Y">>]],
    [emptyBook(n + 1) EXCEPT
       !.title = <<"k:ongaku">>, !.author = <<"k:adorno">>,
       !.year = <<"1", "9", "9", "8">>, !.publisher = <<"k:heibonsha">>,
       !.tags = <<<<"k:media">>, <<"k:ongaku">>>>,
       !.location = <<"B", "-", "2">>, !.note = <<"k:kougi">>],
    [emptyBook(n + 2) EXCEPT
       !.title = <<"N", "A">>, !.author = <<"L", "W">>,
       !.year = <<"1", "9", "9", "7">>, !.publisher = <<"J", "N">>,
       !.tags = <<<<"k:narrative">>, <<"k:houhou">>>>,
       !.location = <<"P", "D", "F">>, !.status = STATUS_OUT,
       !.note = <<"k:kashidashi">>,
       !.extras = [k \in {K_COVER} |-> <<"h", "t", "t", "p">>]]>>

handleSample ==
  /\ page = "mounted"
  /\ app = "generic"
  /\ editing = <<>>
  /\ steps < MaxOps
  /\ books' = SampleBooks(nextUuid) \o books
  /\ stored' = save(books')
  /\ ColumnsEffect(columns, books')
  /\ nextUuid' = nextUuid + SAMPLE_COUNT
  /\ steps' = steps + 1
  /\ lastImport' = NoImport
  /\ UNCHANGED <<app, reading, alertMsg, editing, selectedIds, hdrIn, hdrOut,
                 mExisting, mIncoming, mOut, codec, isbnIn, isbnOut, page,
                 atSelect,
                 tagsIn, tagsOut, lookup, escIn, escOut>>

\* The updater of pullFromCloud: a Map of prev, every fetched row set under
\* its id.  A fetched row is a new object; its history field continues the
\* record it replaces, or is fresh.
RECURSIVE CloudMerge(_, _, _)
CloudMerge(m, rows, n) ==
  IF rows = <<>> THEN m
  ELSE LET r == Head(rows)
           old == MapGet(m, r.id)
           rec == [r EXCEPT !.uid = IF old # <<>> THEN old[1].uid ELSE n]
       IN  CloudMerge(MapSet(m, r.id, rec), Tail(rows), n + 1)

\* pullFromCloud (generic), once the select has answered with Rows.
pullFromCloud(RowSets) ==
  /\ page = "mounted"
  /\ app = "generic"
  /\ editing = <<>>
  /\ steps < MaxOps
  /\ \E rows \in RowSets :
       /\ books' = MapValues(CloudMerge(MapFrom(IdEntries(books), <<>>), rows,
                                        nextUuid))
       /\ nextUuid' = nextUuid + Len(rows)
       /\ alertMsg' = [NoAlert EXCEPT !.kind = "pulled", !.added = Len(rows)]
  /\ stored' = save(books')
  /\ ColumnsEffect(columns, books')
  /\ steps' = steps + 1
  /\ lastImport' = NoImport
  /\ UNCHANGED <<app, reading, editing, selectedIds, hdrIn, hdrOut, mExisting,
                 mIncoming, mOut, codec, isbnIn, isbnOut, page, atSelect,
                 tagsIn, tagsOut, lookup, escIn, escOut>>

(***************************************************************************)
(* Inputs: the texts typed, scanned and imported in the runs checked.      *)
(***************************************************************************)
ISBN_A == <<"9", "7", "8", "4", "4", "8", "0", "0", "9", "0", "4", "7", "8">>
ISBN_B == <<"9", "7", "8", "0", "3", "0", "6", "4", "0", "6", "1", "5", "7">>
ISBN_C == <<"9", "7", "8", "1", "8", "6", "1", "9", "7", "2", "7", "1", "2">>
\* The 10-digit form of ISBN_A, and ISBN_A typed with hyphens.
ISBN10_A == <<"4", "4", "8", "0", "0", "9", "0", "4", "7", "9">>
ISBN_A_HYPHENS ==
  <<"9", "7", "8", "-", "4", "-", "4", "8", "0", "-", "0", "9", "0", "4", "7",
    "-", "8">>
ISBN_SHORT == <<"1", "2", "3">>

\* A data row of a file, by the cells that are not empty.
Row(id, isbn, title, note) ==
  [id |-> id, isbn |-> isbn, title |-> title, note |-> note, tags |-> <<>>,
   status |-> <<>>, cover |-> <<>>]

\* The cells of a row under a localized header variant.
L_Cells(kind, r) ==
  (IF kind \in {"new", "no_tag"} THEN <<r.id>> ELSE <<>>)
  \o <<r.isbn, <<>>, r.title, <<>>, <<>>, <<>>, <<>>, r.cover, <<>>, r.status,
       r.note>>
  \o (IF kind \in {"new", "no_id"} THEN <<r.tags>> ELSE <<>>)

L_HeaderOf(kind) ==
  (CHOOSE i \in DOMAIN HeaderVariants : HeaderVariants[i].kind = kind)

L_FileText(kind, rows) ==
  CsvText(<<HeaderVariants[L_HeaderOf(kind)].arr>>
          \o [i \in DOMAIN rows |-> L_Cells(kind, rows[i])])

\* The cells of a row under the generic header.
G_Cells(r) ==
  <<r.id, r.title, <<>>, r.isbn, <<>>, <<>>, r.tags, <<>>, r.status, r.note>>

G_FileText(rows) ==
  CsvText(<<G_HEADER>> \o [i \in DOMAIN rows |-> G_Cells(rows[i])])

\* A file whose header row is JP_HEADERS with the title column renamed.
L_BadHeaderText(rows) ==
  CsvText(<<[JP_HEADERS EXCEPT ![4] = G_TITLE]>>
          \o [i \in DOMAIN rows |-> L_Cells("new", rows[i])])

\* All sequences over S of length 1..n.
SeqsUpTo(S, n) == UNION {[1..k -> S] : k \in 1..n}

\* A book of an initial catalogue (one the program stored earlier).
InitBook(uid, id, isbn, title, note) ==
  [emptyBook(uid) EXCEPT !.id = id, !.isbn = isbn, !.title = title,
                         !.note = note]

Book_X == InitBook(1, <<"a">>, ISBN_A, <<"x">>, <<"o", "r", "i", "g">>)
Book_Y == [InitBook(2, <<"b">>, ISBN_B, <<"y">>, <<>>)
             EXCEPT !.extras = [k \in {K_COVER} |-> <<"y">>]]

\* Book_X with two tags.
Book_Tags == [Book_X EXCEPT !.tags = <<<<"t">>, <<"u">>>>]

InitCatalogs == {<<>>, <<Book_X>>, <<Book_X, Book_Y>>}

\* The first uuid number free after the initial records' history numbers.
FirstUuid == Len(<<Book_X, Book_Y>>) + 1

\* The page after mount, its catalogue loaded from localStorage.
InitPage ==
  /\ stored = save(books)
  /\ page = "mounted"
  /\ columns = (IF app = "generic"
                THEN ensureExtraColumns(APP_DEFAULT_COLUMNS, books)
                ELSE APP_DEFAULT_COLUMNS)
  /\ colStored = (IF columns # APP_DEFAULT_COLUMNS THEN <<columns>> ELSE <<>>)
  /\ lookup = LookupIdle
  /\ reading = <<>>
  /\ atSelect = <<>>
  /\ alertMsg = NoAlert
  /\ editing = <<>>
  /\ selectedIds = {}
  /\ nextUuid = FirstUuid
  /\ steps = 0
  /\ lastImport = NoImport

\* No header row handed to detectHeaderMap yet.
InitHdrIdle ==
  /\ hdrIn = <<>>
  /\ hdrOut = [ok |-> FALSE, kind |-> "none", map |-> VariantMap(<<>>),
               message |-> <<>>]

\* No pair of records handed to mergeFillBlanks yet.
InitMergeIdle ==
  /\ mExisting = emptyBook(0)
  /\ mIncoming = emptyBook(0)
  /\ mOut = emptyBook(0)

\* No text handed to the CSV encoder or decoder yet.
CodecIdle ==
  [phase |-> "idle", origin |-> "none", catalog |-> <<>>, text |-> <<>>,
   ok |-> TRUE, list |-> <<>>]

InitCodecIdle == codec = CodecIdle

\* No text handed to normalizeIsbn yet.
InitIsbnIdle ==
  /\ isbnIn = <<>>
  /\ isbnOut = <<>>

\* No text handed to parseTags yet.
InitTagsIdle ==
  /\ tagsIn = <<>>
  /\ tagsOut = <<>>

\* No row handed to csvEscape and the tokenizer yet.
InitEscIdle ==
  /\ escIn = <<>>
  /\ escOut = <<>>

InitCommon ==
  /\ InitPage
  /\ InitHdrIdle
  /\ InitMergeIdle
  /\ InitCodecIdle
  /\ InitIsbnIdle
  /\ InitTagsIdle
  /\ InitEscIdle

(***************************************************************************)
(* SpecImport: imports only, in either build, from the three initial       *)
(* catalogues.  The files:                                                 *)
(*   R_same   a row equal to Book_X in every column                        *)
(*   R_noid   Book_X's ISBN, no id                                         *)
(*   R_cross  Book_Y's id with Book_X's ISBN, and a tag                    *)
(*   R_title  a title only                                                 *)
(*   R_isbn10 a new id with the 10-digit form of Book_X's ISBN             *)
(*   R_new    a record the catalogue does not hold                         *)
(*   R_short  a new id with an ISBN of three digits                        *)
(***************************************************************************)
MaxImports == 2

R_same == Row(<<"a">>, ISBN_A, <<"x">>, <<"o", "r", "i", "g">>)
R_noid == Row(<<>>, ISBN_A, <<"x">>, <<>>)
R_cross == [Row(<<"b">>, ISBN_A, <<"x">>, <<"n">>) EXCEPT !.tags = <<"t">>]
R_title == Row(<<>>, <<>>, <<"t">>, <<>>)
R_isbn10 == Row(<<"c">>, ISBN10_A, <<"z">>, <<"n">>)
R_new == Row(<<"d">>, ISBN_C, <<"w">>, <<>>)
R_short == Row(<<"e">>, ISBN_SHORT, <<"s">>, <<>>)
\* Rows that hold no title, no ISBN and no id: every cell empty, the four
\* cells one space each, a note only.
R_blank == Row(<<>>, <<>>, <<>>, <<>>)
R_spaces == Row(<<" ">>, <<" ">>, <<" ">>, <<" ">>)
R_noteonly == Row(<<>>, <<>>, <<>>, <<"n">>)

\* Row sequences none of whose rows names a record (<<>>: header only).
EmptyRowSeqs ==
  {<<>>, <<R_blank>>, <<R_spaces>>, <<R_noteonly>>, <<R_blank, R_noteonly>>}

ImportRowSeqs ==
  {<<R_same>>, <<R_noid>>, <<R_cross>>, <<R_title>>, <<R_isbn10>>, <<R_new>>,
   <<R_short>>, <<R_new, R_new>>, <<R_same, R_cross>>}

L_ImportTexts ==
  {L_FileText("new", rows) : rows \in ImportRowSeqs}
  \cup {L_FileText("no_id_no_tag", rows) : rows \in {<<R_noid>>, <<R_title>>}}
  \cup {L_BadHeaderText(<<R_new>>), L_BadHeaderText(<<>>),
        G_FileText(<<R_new>>)}
  \cup {L_FileText("new", rows) : rows \in EmptyRowSeqs}
  \cup {L_FileText("no_id", <<R_noteonly>>), <<>>}

G_ImportTexts ==
  {G_FileText(rows) : rows \in ImportRowSeqs}
  \cup {L_FileText("new", <<R_new>>)}
  \cup {G_FileText(rows) : rows \in EmptyRowSeqs}
  \cup {<<>>}

InitImport ==
  /\ app \in {"generic", "localized"}
  /\ books \in InitCatalogs
  /\ InitCommon

ChooseImportFile ==
  /\ steps < MaxImports
  /\ ChooseFile(IF app = "generic" THEN G_ImportTexts ELSE L_ImportTexts)

NextImport == ChooseImportFile \/ L_OnLoad \/ G_OnLoad

SpecImport == InitImport /\ [][NextImport]_vars

(***************************************************************************)
(* Properties of the imports (SpecImport).                                 *)
(***************************************************************************)
\* The catalogue as the set of its records, history field left out.
Records(list) == {Fields(list[i]) : i \in DOMAIN list}

\* The trimmed ID cells of the data rows of a localized file.
FileRowIds(text) ==
  LET rows == parseCSV(text)
      prof == detectHeaderMap(Head(rows))
  IN  [i \in 1..(Len(rows) - 1) |-> getCell(prof.map, rows[i + 1], H_ID)]

\* The file has a header row, and no variant is a prefix of it.
MalformedHeaderFile(text) ==
  LET rows == parseCSV(text)
  IN  /\ rows # <<>>
      /\ \A i \in DOMAIN HeaderVariants :
           \/ Len(Head(rows)) < Len(HeaderVariants[i].arr)
           \/ \E j \in DOMAIN HeaderVariants[i].arr :
                normalizeHeaderCell(Head(rows)[j])
                  # normalizeHeaderCell(HeaderVariants[i].arr[j])

\* C2: after an import of one row whose id is the id of an existing record
\* and whose ISBN is the ISBN of another existing record, the record matched
\* by ISBN is in the catalogue unchanged (the id match has priority).
C2_IdMatchHasPriority ==
  (lastImport.valid /\ Len(lastImport.incoming) = 1) =>
    LET inc == lastImport.incoming[1]
        idMatch == {b \in Range(lastImport.before) : b.id = inc.id}
        isbnMatch == {b \in Range(lastImport.before) :
                        b.isbn # <<>> /\ b.isbn = inc.isbn}
    IN  \A x \in idMatch, y \in isbnMatch : x # y => y \in Range(books)

\* C4: after a localized import of a file none of whose rows carries an id,
\* every record held before is still held under the id it had.
C4_NoIdRowKeepsId ==
  (/\ lastImport.valid
   /\ app = "localized"
   /\ \A i \in DOMAIN FileRowIds(lastImport.text) :
        FileRowIds(lastImport.text)[i] = <<>>) =>
    \A b \in Range(lastImport.before) :
      \E c \in Range(books) : c.uid = b.uid /\ c.id = b.id

\* C6: the "updated" number an import reports counts no row whose merged
\* record equals its target in every field.
C6_UpdatedCountsChanges ==
  lastImport.valid => alertMsg.updated <= lastImport.changed

\* C7: the second of two successive imports of the same text reports
\* added = 0 and updated = 0 and leaves the catalogue as it found it.
C7_SecondImportIdempotent ==
  lastImport.repeat =>
    /\ alertMsg.added = 0
    /\ alertMsg.updated = 0
    /\ Len(books) = Len(lastImport.before)
    /\ Records(books) = Records(lastImport.before)

\* C9: when the localized build finishes reading a file whose header row
\* matches no accepted variant, it reports an error that lists every
\* accepted header row, and the catalogue and its stored copy stay as they
\* were.
C9_MalformedHeaderAborts ==
  [][(/\ app = "localized"
      /\ reading # <<>>
      /\ reading' = Tail(reading)
      /\ MalformedHeaderFile(Head(reading))) =>
       (/\ books' = books
        /\ stored' = stored
        /\ alertMsg'.kind = "error"
        /\ \A i \in DOMAIN HeaderVariants :
             \E j \in DOMAIN alertMsg'.message :
               alertMsg'.message[j] = HeaderVariants[i].arr)]_vars

\* C9's case: the error is shown over a catalogue of two records, both
\* still held and stored.
C9_Witness ==
  /\ app = "localized"
  /\ alertMsg.kind = "error"
  /\ books = <<Book_X, Book_Y>>
  /\ stored = save(books)

\* Every cell of the row is empty after trimming.
BlankRow(r) == \A i \in DOMAIN r : trim(r[i]) = <<>>

\* The data rows of a file (the rows after the header row).
DataRows(text) ==
  LET rows == parseCSV(text) IN IF rows = <<>> THEN <<>> ELSE Tail(rows)

\* The row names no record: it is blank, or its title, ISBN and (where the
\* layout has an ID column) id cells are empty after trimming.
L_SkipRow(map, r) ==
  \/ BlankRow(r)
  \/ /\ getCell(map, r, H_TITLE) = <<>>
     /\ getCell(map, r, H_ISBN) = <<>>
     /\ getCell(map, r, H_ID) = <<>>

G_SkipRow(header, r) ==
  \/ BlankRow(r)
  \/ /\ trim(G_get(header, r, G_TITLE)) = <<>>
     /\ trim(G_get(header, r, G_ISBN)) = <<>>
     /\ trim(G_get(header, r, G_ID)) = <<>>

\* The file names no record: it is empty, or its header row resolves and
\* every data row names no record.
L_NoValidRow(text) ==
  LET rows == parseCSV(text)
  IN  \/ rows = <<>>
      \/ /\ ~MalformedHeaderFile(text)
         /\ \A i \in DOMAIN DataRows(text) :
              L_SkipRow(detectHeaderMap(Head(rows)).map, DataRows(text)[i])

G_NoValidRow(text) ==
  LET rows == parseCSV(text)
  IN  \/ rows = <<>>
      \/ \A i \in DOMAIN DataRows(text) :
           G_SkipRow(Head(rows), DataRows(text)[i])

\* C11: when either build finishes reading a file that names no record
\* (empty, header only, blank rows only, or only rows without title, ISBN
\* and id), it shows the empty-import message and the catalogue and its
\* stored copy stay as they were.
C11_EmptyImportReported ==
  [][(/\ reading # <<>>
      /\ reading' = Tail(reading)
      /\ IF app = "generic" THEN G_NoValidRow(Head(reading))
                            ELSE L_NoValidRow(Head(reading))) =>
       (/\ books' = books
        /\ stored' = stored
        /\ alertMsg'.kind = "empty")]_vars

MatchedBefore(inc) ==
  LET byId == {b \in Range(lastImport.before) : b.id = inc.id}
      byIsbn == {b \in Range(lastImport.before) :
                   b.isbn # <<>> /\ b.isbn = inc.isbn}
  IN  IF byId # {} THEN byId ELSE byIsbn

\* The matched record after the import has the row's value in every field
\* and the existing extras overridden key by key by the row's.
OverwrittenBy(c, t, inc) ==
  /\ c.title = inc.title
  /\ c.author = inc.author
  /\ c.isbn = inc.isbn
  /\ c.year = inc.year
  /\ c.publisher = inc.publisher
  /\ c.tags = inc.tags
  /\ c.location = inc.location
  /\ c.status = inc.status
  /\ c.note = inc.note
  /\ DOMAIN c.extras = (DOMAIN t.extras) \cup (DOMAIN inc.extras)
  /\ \A k \in DOMAIN c.extras :
       c.extras[k] = IF k \in DOMAIN inc.extras THEN inc.extras[k]
                     ELSE t.extras[k]

\* C20: after a localized import of one row that matched one existing
\* record, that record has the row's value in every field, its extras are
\* the existing ones overridden by the row's, and it has the id it had
\* unless the row's ID cell holds another id (the migration), which it then
\* has.
C20_OverwriteMerge ==
  (/\ lastImport.valid
   /\ app = "localized"
   /\ Len(lastImport.incoming) = 1
   /\ lastImport.matched = 1
   /\ Cardinality(MatchedBefore(lastImport.incoming[1])) = 1) =>
    LET inc == lastImport.incoming[1]
        cell == FileRowIds(lastImport.text)[1]
    IN  \A t \in MatchedBefore(inc) :
          \E c \in Range(books) :
            /\ c.uid = t.uid
            /\ OverwrittenBy(c, t, inc)
            /\ c.id = IF cell # <<>> THEN cell ELSE t.id

(***************************************************************************)
(* SpecNoTag: imports of the localized build into a catalogue whose first  *)
(* record has tags, from files in the layouts without a tag column and in  *)
(* the full layout.                                                        *)
(***************************************************************************)
NoTagRowSeqs == {<<R_same>>, <<R_noid>>, <<R_new>>, <<R_cross>>}

NoTagTexts ==
  {L_FileText(kind, rows) :
     kind \in {"no_tag", "no_id_no_tag", "new"}, rows \in NoTagRowSeqs}

InitNoTag ==
  /\ app = "localized"
  /\ books \in {<<Book_Tags>>, <<Book_Tags, Book_Y>>}
  /\ InitCommon

ChooseNoTagFile ==
  /\ steps < MaxImports
  /\ ChooseFile(NoTagTexts)

NextNoTag == ChooseNoTagFile \/ L_OnLoad

SpecNoTag == InitNoTag /\ [][NextNoTag]_vars

\* The layout of the file has no tag column.
NoTagLayout(text) ==
  /\ parseCSV(text) # <<>>
  /\ detectHeaderMap(Head(parseCSV(text))).kind \in {"no_tag", "no_id_no_tag"}

\* C26: after an import of a file whose layout has no tag column, every
\* record held before still has every tag it had.
C26_NoTagImportKeepsTags ==
  (lastImport.valid /\ NoTagLayout(lastImport.text)) =>
    \A t \in Range(lastImport.before) :
      \A c \in Range(books) :
        c.uid = t.uid => Range(t.tags) \subseteq Range(c.tags)

(***************************************************************************)
(* SpecLong: one import of a file of up to MaxLongRows rows into the       *)
(* catalogue <<Book_X, Book_Y>>, in either build.  The rows move ISBNs and *)
(* ids between the two records.                                            *)
(***************************************************************************)
LongRows ==
  {Row(<<"a">>, ISBN_C, <<"x">>, <<>>),
   Row(<<"c">>, ISBN_C, <<"x">>, <<>>),
   Row(<<"a">>, ISBN_B, <<"y">>, <<>>),
   Row(<<>>, ISBN_A, <<"x">>, <<>>),
   Row(<<"b">>, ISBN_B, <<"y">>, <<>>)}

LongRowSeqs == SeqsUpTo(LongRows, MaxLongRows)

InitLong ==
  /\ app \in {"generic", "localized"}
  /\ books = <<Book_X, Book_Y>>
  /\ InitCommon

ChooseLongFile ==
  /\ steps = 0
  /\ ChooseFile(IF app = "generic"
                THEN {G_FileText(rows) : rows \in LongRowSeqs}
                ELSE {L_FileText("new", rows) : rows \in LongRowSeqs})

NextLong == ChooseLongFile \/ L_OnLoad \/ G_OnLoad

SpecLong == InitLong /\ [][NextLong]_vars

\* C1: after an import the catalogue holds at least as many records as
\* before, and every record held before is still held (the record it has
\* become carries its history number, under the old or an adopted id).
C1_ImportKeepsRecords ==
  lastImport.valid =>
    /\ Len(books) >= Len(lastImport.before)
    /\ \A b \in Range(lastImport.before) :
         \E c \in Range(books) : c.uid = b.uid

\* No two records of the list share an id.
DistinctIds(list) ==
  \A i, j \in DOMAIN list : i # j => list[i].id # list[j].id

\* C27: after an import into a catalogue with pairwise distinct ids, the
\* catalogue holds as many records as before plus the number the report
\* gives as added.
C27_AddedAccountsForGrowth ==
  (lastImport.valid /\ DistinctIds(lastImport.before)) =>
    Len(books) = Len(lastImport.before) + alertMsg.added

(***************************************************************************)
(* SpecMerge: mergeFillBlanks applied once to a pair of records.  One text *)
(* field and the ISBN of each record are drawn; the other fields are those *)
(* of emptyBook().                                                         *)
(***************************************************************************)
TextFields == {"title", "author", "year", "publisher", "location", "note"}

ExistingTexts == {<<>>, <<"x">>, <<" ">>, <<" ", "x">>}
IncomingTexts == {<<>>, <<"z">>}
ExistingIsbns == {<<>>, ISBN_A, ISBN_A_HYPHENS, ISBN10_A, ISBN_SHORT, <<" ">>}
IncomingIsbns == {<<>>, ISBN_B}

InitMerge ==
  /\ app = "generic"
  /\ books = <<>>
  /\ InitPage
  /\ InitHdrIdle
  /\ InitCodecIdle
  /\ InitIsbnIdle
  /\ InitTagsIdle
  /\ InitEscIdle
  /\ \E f \in TextFields, ev \in ExistingTexts, iv \in IncomingTexts,
        ei \in ExistingIsbns, ii \in IncomingIsbns :
       /\ mExisting = [emptyBook(1) EXCEPT ![f] = ev, !.isbn = ei]
       /\ mIncoming = [emptyBook(2) EXCEPT ![f] = iv, !.isbn = ii]
  /\ mOut = emptyBook(0)

Merge ==
  /\ steps = 0
  /\ mOut' = mergeFillBlanks(mExisting, mIncoming)
  /\ steps' = steps + 1
  /\ UNCHANGED <<app, books, stored, reading, alertMsg, editing, selectedIds,
                 nextUuid, lastImport, hdrIn, hdrOut, mExisting, mIncoming,
                 codec, isbnIn, isbnOut, page, atSelect,
                 tagsIn, tagsOut, lookup, columns, colStored, escIn, escOut>>

NextMerge == Merge

SpecMerge == InitMerge /\ [][NextMerge]_vars

IsIsbn13(s) == Len(s) = 13 /\ \A i \in DOMAIN s : IsDigit(s[i])

\* C5 as stated: every non-empty existing value of title, author, isbn,
\* year, publisher, location and note is the merged record's value.
C5_NonEmptyKept ==
  steps > 0 =>
    \A f \in TextFields \cup {"isbn"} :
      mExisting[f] # <<>> => mOut[f] = mExisting[f]

\* C5, amended: an existing value of title, author, year, publisher,
\* location or note that is not blank (not empty after trimming) is the
\* merged record's value; an existing ISBN that is not blank is replaced by
\* its canonical form, which is the same value when it is 13 digits.
C5_NonBlankKept ==
  steps > 0 =>
    /\ \A f \in TextFields :
         trim(mExisting[f]) # <<>> => mOut[f] = mExisting[f]
    /\ IsIsbn13(mExisting.isbn) => mOut.isbn = mExisting.isbn
    /\ trim(mExisting.isbn) # <<>> =>
         mOut.isbn = G_normalizeIsbn(mExisting.isbn)

\* C5's case: a note "x" met by an incoming note "z".
C5_Witness ==
  /\ steps > 0
  /\ mExisting.note = <<"x">>
  /\ mIncoming.note = <<"z">>
  /\ mOut.note = <<"x">>

(***************************************************************************)
(* SpecHdr: detectHeaderMap applied once to a header row.  The rows: the   *)
(* declared layouts, a declared layout typed in full-width letters or with *)
(* blanks, and every row obtained from a localized layout by renaming one  *)
(* column, by exchanging two columns, or by moving the first column last.  *)
(***************************************************************************)
LocalizedLayouts == {HeaderVariants[i].arr : i \in DOMAIN HeaderVariants}

DeclaredLayouts == LocalizedLayouts \cup {G_HEADER}

Renamed(v, i) == [v EXCEPT ![i] = <<"z", "z">>]

Swapped(v, i, j) == [v EXCEPT ![i] = v[j], ![j] = v[i]]

MovedLast(v) == Tail(v) \o <<Head(v)>>

\* JP_HEADERS with "ID" in full-width letters and a blank inside "ISBN...".
WideSpelling ==
  [JP_HEADERS EXCEPT ![1] = <<"w:I", "w:D">>, ![2] = <<" ">> \o H_ISBN \o <<" ">>]

HeaderRows ==
  DeclaredLayouts
  \cup {WideSpelling}
  \cup UNION {{Renamed(v, i) : i \in DOMAIN v} : v \in LocalizedLayouts}
  \cup UNION {{Swapped(v, p[1], p[2]) :
                 p \in {q \in (DOMAIN v) \X (DOMAIN v) : q[1] < q[2]}} :
              v \in LocalizedLayouts}
  \cup {MovedLast(v) : v \in LocalizedLayouts}

InitHdr ==
  /\ app = "localized"
  /\ books = <<>>
  /\ InitPage
  /\ InitMergeIdle
  /\ InitCodecIdle
  /\ InitIsbnIdle
  /\ InitTagsIdle
  /\ InitEscIdle
  /\ hdrIn \in HeaderRows
  /\ hdrOut = [ok |-> FALSE, kind |-> "none", map |-> VariantMap(<<>>),
               message |-> <<>>]

Resolve ==
  /\ steps = 0
  /\ hdrOut' = detectHeaderMap(hdrIn)
  /\ steps' = steps + 1
  /\ UNCHANGED <<app, books, stored, reading, alertMsg, editing, selectedIds,
                 nextUuid, lastImport, hdrIn, mExisting, mIncoming, mOut,
                 codec, isbnIn, isbnOut, page, atSelect,
                 tagsIn, tagsOut, lookup, columns, colStored, escIn, escOut>>

NextHdr == Resolve

SpecHdr == InitHdr /\ [][NextHdr]_vars

AsyncRowSeqs == {<<R_cross>>, <<R_new, R_title>>}

AsyncTexts ==
  IF app = "generic" THEN {G_FileText(rows) : rows \in AsyncRowSeqs}
                     ELSE {L_FileText("new", rows) : rows \in AsyncRowSeqs}

AsyncCloudRows == {<<[Book_Y EXCEPT !.title = <<"c">>]>>}

InitAsync ==
  /\ app \in {"generic", "localized"}
  /\ books = <<Book_X, Book_Y>>
  /\ InitCommon

NextAsync ==
  \/ ChooseFile(AsyncTexts)
  \/ ChooseFileWhileReading(AsyncTexts)
  \/ L_OnLoad
  \/ G_OnLoad
  \/ FormOpenEdit
  \/ FormType({<<"a">>}, {ISBN_B}, {<<"e">>})
  \/ G_FormSubmit
  \/ L_FormSubmit
  \/ removeBook
  \/ pullFromCloud(AsyncCloudRows)

SpecAsync == InitAsync /\ [][NextAsync]_vars

\* What one whole import of a text makes of a catalogue: the catalogue
\* itself when the decoder throws or returns no book, the values of the
\* merge loop's byId map otherwise.
ImportOutcome(catalog, text, n) ==
  IF app = "generic"
  THEN LET dec == fromCSV(text, n)
       IN  IF dec.list = <<>> THEN catalog
           ELSE MapValues(G_ImportLoop(G_LoopInit(catalog, dec.n), dec.list).byId)
  ELSE LET dec == fromCSV_JP(text, n)
       IN  IF ~dec.ok \/ dec.list = <<>> THEN catalog
           ELSE MapValues(L_ImportLoop(L_LoopInit(catalog, dec.n), dec.list).byId)

\* C14: every step that changes the catalogue while a file is being read
\* is either another operation's whole change (the files being read stay
\* as they were) or the end of a read, and the end of a read replaces the
\* catalogue by the whole import of the file onto the catalogue of that
\* moment, whatever the catalogue was when the file was chosen.
C14_ImportAtomicOnLatest ==
  [][(reading # <<>> /\ books' # books) =>
       \/ reading' = reading
       \/ /\ reading' = Tail(reading)
          /\ books' = ImportOutcome(books, Head(reading), nextUuid)]_vars

\* C14's case: an import has run on a catalogue that another operation
\* changed after the file was chosen, and has changed it further.
C14_Witness ==
  /\ lastImport.valid
  /\ lastImport.selected # lastImport.before
  /\ books # lastImport.before

(***************************************************************************)
(* SpecLoad: the page from before its first render, over every kind of     *)
(* item localStorage can hold under the catalogue's key, followed by form  *)
(* saves and deletions.                                                    *)
(***************************************************************************)
\* Items that are not a stored catalogue: none, a text JSON.parse rejects,
\* and the JSON documents of an object, a number and null.
CorruptItems ==
  {NoItem} \cup {[json |-> k, value |-> <<>>] :
                   k \in {"invalid", "object", "number", "null"}}

StoredItems == CorruptItems \cup {save(c) : c \in InitCatalogs}

\* What localStorage holds under the columns' key: nothing, or a list
\* saved earlier.
StoredColumnItems ==
  {<<>>, <<[APP_DEFAULT_COLUMNS EXCEPT ![1].visible = FALSE]>>}

InitLoad ==
  /\ app \in {"generic", "localized"}
  /\ stored \in StoredItems
  /\ books = <<>>
  /\ page = "unmounted"
  /\ reading = <<>>
  /\ atSelect = <<>>
  /\ alertMsg = NoAlert
  /\ editing = <<>>
  /\ selectedIds = {}
  /\ nextUuid = FirstUuid
  /\ steps = 0
  /\ lastImport = NoImport
  /\ columns = APP_DEFAULT_COLUMNS
  /\ colStored \in StoredColumnItems
  /\ lookup = LookupIdle
  /\ InitHdrIdle
  /\ InitMergeIdle
  /\ InitCodecIdle
  /\ InitIsbnIdle
  /\ InitTagsIdle
  /\ InitEscIdle

NextLoad ==
  \/ Mount
  \/ FormOpenNew
  \/ FormType({<<"a">>}, {ISBN_C}, {<<"n">>})
  \/ G_FormSubmit
  \/ L_FormSubmit
  \/ removeBook

SpecLoad == InitLoad /\ [][NextLoad]_vars

\* C16: a first render that finds no stored catalogue (no item, a text that
\* does not parse, or a document that is not a list of books) ends with the
\* page running on an empty catalogue.
C16_CorruptStartsEmpty ==
  [][(page = "unmounted" /\ page' # "unmounted" /\ stored \in CorruptItems)
       => (page' = "mounted" /\ books' = <<>>)]_vars

(***************************************************************************)
(* SpecCodec: the CSV encoder and decoder of either build, applied to      *)
(*   - one-row files whose id, ISBN, title and note cells are each empty,  *)
(*     blank or filled (the decoder alone), and                            *)
(*   - catalogues of up to two records (the encoder, then the decoder on   *)
(*     the encoder's text).                                                *)
(* codec.origin tells the two kinds of run apart.                          *)
(***************************************************************************)
CellIds == {<<>>, <<" ">>, <<"a">>}
CellIsbns == {<<>>, ISBN_A, ISBN_SHORT}
CellTitles == {<<>>, <<" ">>, <<"t">>}
CellNotes == {<<>>, <<"n">>}

DecodeRowSet ==
  {Row(i, n, t, m) : i \in CellIds, n \in CellIsbns, t \in CellTitles,
                     m \in CellNotes}

\* A column that no layout declares, and the cells under it.
X_PRICE == <<"p", "r", "i", "c", "e">>
PriceCells == {<<"1", "1", "0", "0">>, <<>>}

\* One-row files with the column X_PRICE after the layout's own columns.
L_ExtraColumnTexts ==
  {CsvText(<<HeaderVariants[L_HeaderOf(kind)].arr \o <<X_PRICE>>,
             L_Cells(kind, R_new) \o <<c>>>>) :
     kind \in {"new", "no_tag"}, c \in PriceCells}

G_ExtraColumnTexts ==
  {CsvText(<<G_HEADER \o <<X_PRICE>>, G_Cells(R_new) \o <<c>>>>) :
     c \in PriceCells}

L_DecodeTexts ==
  {L_FileText(kind, <<r>>) : kind \in {"new", "no_id"}, r \in DecodeRowSet}
  \cup {L_FileText("new", <<R_blank, r, R_spaces>>) : r \in {R_new, R_noteonly}}
  \cup L_ExtraColumnTexts

G_DecodeTexts ==
  {G_FileText(<<r>>) : r \in DecodeRowSet}
  \cup {G_FileText(<<R_blank, r, R_spaces>>) : r \in {R_new, R_noteonly}}
  \cup G_ExtraColumnTexts

\* Records of the catalogues that are encoded: tags, a note that needs
\* quoting, a title that begins with a space, a short ISBN, a lent book, a
\* record with an id only.
Book_Quoted == [Book_X EXCEPT !.note = <<"a", ",", "\"", "b", "\n", "c">>]
Book_Spaced == [Book_X EXCEPT !.title = <<" ", "x">>]
Book_Short == [Book_X EXCEPT !.isbn = ISBN_SHORT]
Book_Out == [Book_Y EXCEPT !.status = STATUS_OUT]
Book_IdOnly == [emptyBook(2) EXCEPT !.id = <<"b">>]

CodecBooksFirst == {Book_X, Book_Tags, Book_Quoted, Book_Spaced, Book_Short}
CodecBooksSecond == {Book_Y, Book_Out, Book_IdOnly}

CodecCatalogs ==
  {<<>>}
  \cup {<<x>> : x \in CodecBooksFirst \cup CodecBooksSecond}
  \cup {<<x, y>> : x \in CodecBooksFirst, y \in CodecBooksSecond}
  \cup {<<y, x>> : x \in CodecBooksFirst, y \in CodecBooksSecond}

InitCodec ==
  /\ app \in {"generic", "localized"}
  /\ books = <<>>
  /\ InitPage
  /\ InitHdrIdle
  /\ InitMergeIdle
  /\ InitIsbnIdle
  /\ InitTagsIdle
  /\ InitEscIdle
  /\ \/ \E t \in (IF app = "generic" THEN G_DecodeTexts ELSE L_DecodeTexts) :
          codec = [CodecIdle EXCEPT !.phase = "text", !.origin = "text",
                                    !.text = t]
     \/ \E c \in CodecCatalogs :
          codec = [CodecIdle EXCEPT !.phase = "catalog", !.origin = "catalog",
                                    !.catalog = c]

\* handleExport's text: toCSV(books) or toCSV_JP(books).
Encode ==
  /\ codec.phase = "catalog"
  /\ codec' = [codec EXCEPT
                 !.phase = "text",
                 !.text = IF app = "generic" THEN toCSV(codec.catalog)
                                             ELSE toCSV_JP(codec.catalog)]
  /\ UNCHANGED <<app, books, stored, reading, alertMsg, editing, selectedIds,
                 nextUuid, steps, lastImport, hdrIn, hdrOut, mExisting,
                 mIncoming, mOut, isbnIn, isbnOut, page, atSelect,
                 tagsIn, tagsOut, lookup, columns, colStored, escIn, escOut>>

\* reader.onload's first step: fromCSV(txt) or fromCSV_JP(txt).
Decode ==
  /\ codec.phase = "text"
  /\ LET g == fromCSV(codec.text, nextUuid)
         l == fromCSV_JP(codec.text, nextUuid)
     IN  IF app = "generic"
         THEN /\ codec' = [codec EXCEPT !.phase = "decoded", !.ok = TRUE,
                                        !.list = g.list]
              /\ nextUuid' = g.n
         ELSE /\ codec' = [codec EXCEPT !.phase = "decoded", !.ok = l.ok,
                                        !.list = l.list]
              /\ nextUuid' = l.n
  /\ UNCHANGED <<app, books, stored, reading, alertMsg, editing, selectedIds,
                 steps, lastImport, hdrIn, hdrOut, mExisting, mIncoming, mOut,
                 isbnIn, isbnOut, page, atSelect,
                 tagsIn, tagsOut, lookup, columns, colStored, escIn, escOut>>

NextCodec == Encode \/ Decode

SpecCodec == InitCodec /\ [][NextCodec]_vars

\* The data rows of the decoded text that name a record.
NamingRows ==
  LET rows == parseCSV(codec.text)
  IN  IF rows = <<>> THEN {}
      ELSE {i \in DOMAIN Tail(rows) :
              IF app = "generic"
              THEN ~G_SkipRow(Head(rows), Tail(rows)[i])
              ELSE ~L_SkipRow(detectHeaderMap(Head(rows)).map, Tail(rows)[i])}

\* C12: the decoder returns one book for each data row that names a record
\* (a row that is not blank and has a title, an ISBN or, where the layout
\* has an ID column, an id) and none for the other rows.
C12_DecodeSkipRule ==
  (codec.phase = "decoded" /\ codec.origin = "text" /\ codec.ok) =>
    Len(codec.list) = Cardinality(NamingRows)

\* A book as the round trip compares it: every field the program reads,
\* extras by the keys that hold a non-empty value.
RoundTripView(b) ==
  [Fields(b) EXCEPT
     !.extras = [k \in {j \in DOMAIN b.extras : b.extras[j] # <<>>} |->
                   b.extras[k]]]

\* C13: decoding the text the encoder wrote for a catalogue gives the
\* catalogue's books again, in order, each equal field for field.
C13_RoundTrip ==
  (codec.phase = "decoded" /\ codec.origin = "catalog") =>
    /\ codec.ok
    /\ Len(codec.list) = Len(codec.catalog)
    /\ \A i \in DOMAIN codec.catalog :
         i \in DOMAIN codec.list
           => RoundTripView(codec.list[i]) = RoundTripView(codec.catalog[i])

\* The number of columns of the layout a header row resolved to.
MatchedLen(prof) == Cardinality({h \in DOMAIN prof.map : prof.map[h] > 0})

\* The columns of a header row that the layout does not declare: in the
\* generic build those whose name is no canonical field, in the localized
\* build those after the columns of the matched variant.
ExtraColumns(header) ==
  IF app = "generic"
  THEN {j \in DOMAIN header : header[j] \notin Range(G_HEADER)}
  ELSE {j \in DOMAIN header : j > MatchedLen(detectHeaderMap(header))}

\* The decoder applied to the encoder's text for a list of books.
ExportThenImport(list, n) ==
  IF app = "generic" THEN fromCSV(toCSV(list), n).list
  ELSE fromCSV_JP(toCSV_JP(list), n).list

\* C21: the record decoded from a one-row file has, for every column the
\* layout does not declare, the column's header label as an extras key with
\* the row's cell as its value, and so has the record decoded from the
\* export of that record.
C21_ExtraColumnsKept ==
  (/\ codec.phase = "decoded"
   /\ codec.origin = "text"
   /\ codec.ok
   /\ Len(DataRows(codec.text)) = 1
   /\ Len(codec.list) = 1) =>
    LET header == Head(parseCSV(codec.text))
        r == DataRows(codec.text)[1]
        b == codec.list[1]
        again == ExportThenImport(codec.list, nextUuid)
    IN  \A j \in ExtraColumns(header) :
          j <= Len(r) =>
            /\ header[j] \in DOMAIN b.extras
            /\ b.extras[header[j]] = r[j]
            /\ Len(again) = 1
            /\ header[j] \in DOMAIN again[1].extras
            /\ again[1].extras[header[j]] = r[j]

(***************************************************************************)
(* SpecIsbn: normalizeIsbn of either build applied to one text: ten digits *)
(* (plain, or with hyphens and spaces, every value of the eighth and ninth *)
(* digit), and texts with another number of digits.                        *)
(***************************************************************************)
Isbn10s ==
  {<<"4", "4", "8", "0", "0", "9", "0">> \o <<a, b, c>> :
     a \in Range(Digits), b \in Range(Digits), c \in {"0", "7"}}

\* The ten digits written as "4-480-090ab c".
Hyphenated(d) ==
  <<d[1], "-">> \o SubSeq(d, 2, 4) \o <<"-">> \o SubSeq(d, 5, 9)
  \o <<" ", d[10]>>

IsbnInputs ==
  Isbn10s
  \cup {Hyphenated(d) : d \in Isbn10s}
  \cup {<<>>, ISBN_SHORT, ISBN_A, ISBN_A_HYPHENS,
        <<"4", "4", "8", "0", "0", "9", "0", "4", "7", "X">>}

InitIsbn ==
  /\ app \in {"generic", "localized"}
  /\ books = <<>>
  /\ InitPage
  /\ InitHdrIdle
  /\ InitMergeIdle
  /\ InitCodecIdle
  /\ InitTagsIdle
  /\ InitEscIdle
  /\ isbnIn \in IsbnInputs
  /\ isbnOut = <<>>

\* One call of normalizeIsbn; isbnOut holds its result.
Normalize ==
  /\ isbnOut = <<>>
  /\ isbnOut' = <<IF app = "generic" THEN G_normalizeIsbn(isbnIn)
                                     ELSE L_normalizeIsbn(isbnIn)>>
  /\ UNCHANGED <<app, books, stored, reading, alertMsg, editing, selectedIds,
                 nextUuid, steps, lastImport, hdrIn, hdrOut, mExisting,
                 mIncoming, mOut, codec, isbnIn, page, atSelect,
                 tagsIn, tagsOut, lookup, columns, colStored, escIn, escOut>>

NextIsbn == Normalize

SpecIsbn == InitIsbn /\ [][NextIsbn]_vars

\* The digits of a text, in order.
DigitsOf(raw) == SelectSeq(raw, LAMBDA c : c \in Range(Digits))

\* The first twelve digits weighted 1, 3, 1, 3, ...
Ean13Weighted(s) ==
  DigitVal(s[1]) + 3 * DigitVal(s[2]) + DigitVal(s[3]) + 3 * DigitVal(s[4])
  + DigitVal(s[5]) + 3 * DigitVal(s[6]) + DigitVal(s[7]) + 3 * DigitVal(s[8])
  + DigitVal(s[9]) + 3 * DigitVal(s[10]) + DigitVal(s[11])
  + 3 * DigitVal(s[12])

\* C18: for a text with exactly ten digits normalizeIsbn returns thirteen
\* digits: 978, the first nine digits of the text, and one check digit c
\* with (weighted sum of the first twelve + c) divisible by 10.
C18_Isbn10To13Checksum ==
  (isbnOut # <<>> /\ Len(DigitsOf(isbnIn)) = 10) =>
    LET out == isbnOut[1]
    IN  /\ Len(out) = 13
        /\ \A i \in DOMAIN out : out[i] \in Range(Digits)
        /\ SubSeq(out, 1, 3) = <<"9", "7", "8">>
        /\ SubSeq(out, 4, 12) = SubSeq(DigitsOf(isbnIn), 1, 9)
        /\ (Ean13Weighted(out) + DigitVal(out[13])) % 10 = 0

\* C18's case: ten digits written with hyphens and a space whose weighted
\* sum is a multiple of 10, so that the check digit is the wrapped 0.
C18_Witness ==
  /\ isbnOut # <<>>
  /\ Len(isbnIn) > 10
  /\ Len(DigitsOf(isbnIn)) = 10
  /\ Ean13Weighted(isbnOut[1]) % 10 = 0
  /\ isbnOut[1][13] = "0"

(***************************************************************************)
(* SpecTags: parseTags of either build applied to one text of up to        *)
(* MaxTagChars characters over two letters and the separators.             *)
(***************************************************************************)
MaxTagChars == 3

TagChars == {"a", "b", ";", ",", "k:touten", " ", "w: "}

TagInputs == {<<>>} \cup SeqsUpTo(TagChars, MaxTagChars)

InitTags ==
  /\ app \in {"generic", "localized"}
  /\ books = <<>>
  /\ InitPage
  /\ InitHdrIdle
  /\ InitMergeIdle
  /\ InitCodecIdle
  /\ InitIsbnIdle
  /\ InitEscIdle
  /\ tagsIn \in TagInputs
  /\ tagsOut = <<>>

\* One call of parseTags on a string; tagsOut holds its result.
ParseTags ==
  /\ tagsOut = <<>>
  /\ tagsOut' = <<IF app = "generic" THEN G_parseTags(tagsIn)
                                     ELSE L_parseTags(tagsIn)>>
  /\ UNCHANGED <<app, books, stored, reading, alertMsg, editing, selectedIds,
                 nextUuid, steps, lastImport, hdrIn, hdrOut, mExisting,
                 mIncoming, mOut, codec, isbnIn, isbnOut, page, atSelect,
                 tagsIn, lookup, columns, colStored, escIn, escOut>>

NextTags == ParseTags

SpecTags == InitTags /\ [][NextTags]_vars

\* The separators the tag syntax names: semicolon, comma, Japanese comma
\* and white space.
TagSeparator(c) == c \in {";", ",", "k:touten", " ", "\t", "\n", "\r", "w: "}

\* The places where a piece starts, and the piece that starts at i.
PieceStarts(t) ==
  {i \in DOMAIN t : ~TagSeparator(t[i]) /\ (i = 1 \/ TagSeparator(t[i - 1]))}

PieceAt(t, i) ==
  SubSeq(t, i, CHOOSE j \in i..Len(t) :
                 /\ \A k \in i..j : ~TagSeparator(t[k])
                 /\ (j = Len(t) \/ TagSeparator(t[j + 1])))

\* C22: parseTags of a string returns its pieces between runs of
\* separators, in order, none empty, and no tag holds a separator.
C22_TagsSplitOnSeparators ==
  tagsOut # <<>> =>
    LET out == tagsOut[1]
        starts == PieceStarts(tagsIn)
    IN  /\ Len(out) = Cardinality(starts)
        /\ \A k \in DOMAIN out :
             /\ out[k] # <<>>
             /\ \A i \in DOMAIN out[k] : ~TagSeparator(out[k][i])
             /\ \E i \in starts :
                  /\ Cardinality({j \in starts : j < i}) = k - 1
                  /\ out[k] = PieceAt(tagsIn, i)

(***************************************************************************)
(* SpecLookup: the generic edit dialog with its ISBN lookup.  Each service *)
(* fails at the transport level, answers without an item, answers with an  *)
(* item that has no usable field, or answers with some fields.             *)
(***************************************************************************)
LookupAnswers ==
  {Answer("throws", <<>>, <<>>, <<>>, <<>>),
   Answer("notOk", <<>>, <<>>, <<>>, <<>>),
   Answer("noItem", <<>>, <<>>, <<>>, <<>>),
   Answer("item", <<>>, <<>>, <<>>, <<>>),
   Answer("item", <<"t">>, <<>>, <<>>, <<"2", "0", "0", "8">>),
   Answer("item", <<>>, <<"w">>, <<"p">>, <<>>)}

InitLookup ==
  /\ app = "generic"
  /\ books \in {<<>>, <<Book_X>>}
  /\ InitCommon

\* One dialog is opened in a run.
OpenNewOnce == steps = 0 /\ FormOpenNew

OpenEditOnce == steps = 0 /\ FormOpenEdit

NextLookup ==
  \/ OpenNewOnce
  \/ OpenEditOnce
  \/ FormType({<<>>}, {<<>>}, {<<"x">>})
  \/ FormScan({ISBN_A_HYPHENS})
  \/ autofillFromISBN
  \/ autofillSettles(LookupAnswers)
  \/ FormClose
  \/ G_FormSubmit

SpecLookup == InitLookup /\ [][NextLookup]_vars

\* The service did not answer: the request threw or the response was not OK.
TransportFailure(ans) == ans.kind \in {"throws", "notOk"}

\* The service answered successfully without any usable field.
EmptyAnswer(ans) ==
  \/ ans.kind = "noItem"
  \/ /\ ans.kind = "item"
     /\ ans.title = <<>> /\ ans.author = <<>>
     /\ ans.publisher = <<>> /\ ans.year = <<>>

\* C23: the outcome of a lookup in which both services failed at the
\* transport level is not the outcome fetchBookByISBN reports when both
\* services answer without an item ("no bibliographic data found").
C23_TransportFailureDistinct ==
  (/\ lookup.phase = "done"
   /\ TransportFailure(lookup.google)
   /\ TransportFailure(lookup.openbd)) =>
    \A g, o \in {a \in LookupAnswers : EmptyAnswer(a)} :
      lookup.thrown # fetchBookByISBN(lookup.isbn, g, o).thrown

(***************************************************************************)
(* SpecColumns: the column settings (a column's checkbox, reset to         *)
(* defaults) between operations that change the catalogue: sample seeding, *)
(* deletion, cloud pull, form save.                                        *)
(***************************************************************************)
ColumnCloudRows ==
  {<<[InitBook(0, <<"d">>, <<>>, <<"r">>, <<>>)
        EXCEPT !.extras = [k \in {X_PRICE} |-> <<"9">>]]>>}

InitColumns ==
  /\ app \in {"generic", "localized"}
  /\ books \in InitCatalogs
  /\ InitCommon

NextColumns ==
  \/ toggleColumn
  \/ resetColumns
  \/ handleSample
  \/ removeBook
  \/ pullFromCloud(ColumnCloudRows)

SpecColumns == InitColumns /\ [][NextColumns]_vars

\* The extras keys present in some record of the catalogue.
CatalogExtraKeys == UNION {DOMAIN books[i].extras : i \in DOMAIN books}

\* C24: the column list has an entry "extra:k" for every extras key k of
\* the catalogue, after every operation; and a step that lengthens the
\* list keeps the entries it had and adds hidden ones.
C24_ExtraColumnsListed ==
  /\ [](\A k \in CatalogExtraKeys :
          \E i \in DOMAIN columns : columns[i].key = ExtraColumnKey(k))
  /\ [][Len(columns') > Len(columns) =>
          /\ SubSeq(columns', 1, Len(columns)) = columns
          /\ \A i \in (Len(columns) + 1)..Len(columns') :
               ~columns'[i].visible]_vars

(***************************************************************************)
(* SpecEsc: one row of one or two cells, each of up to MaxCellChars        *)
(* characters over a letter, the comma, the double quote, the line feed    *)
(* and the carriage return, is written as the encoders write it (every     *)
(* cell through csvEscape, the cells joined with commas) and handed to the *)
(* tokenizer.                                                              *)
(***************************************************************************)
MaxCellChars == 2

CellChars == {"a", ",", "\"", "\n", "\r"}

EscCells == {<<>>} \cup SeqsUpTo(CellChars, MaxCellChars)

InitEsc ==
  /\ app \in {"generic", "localized"}
  /\ books = <<>>
  /\ InitPage
  /\ InitHdrIdle
  /\ InitMergeIdle
  /\ InitCodecIdle
  /\ InitIsbnIdle
  /\ InitTagsIdle
  /\ escIn \in SeqsUpTo(EscCells, 2)
  /\ escOut = <<>>

\* cells.map(csvEscape).join(","), then the tokenizer; escOut holds the
\* rows it returns.
EscapeThenTokenize ==
  /\ escOut = <<>>
  /\ escOut' =
       <<parseCSV(Join([i \in DOMAIN escIn |->
                          IF app = "generic" THEN G_csvEscape(escIn[i])
                                             ELSE L_csvEscape(escIn[i])],
                       <<",">>))>>
  /\ UNCHANGED <<app, books, stored, reading, alertMsg, editing, selectedIds,
                 nextUuid, steps, lastImport, hdrIn, hdrOut, mExisting,
                 mIncoming, mOut, codec, isbnIn, isbnOut, page, atSelect,
                 tagsIn, tagsOut, lookup, columns, colStored, escIn>>

NextEsc == EscapeThenTokenize

SpecEsc == InitEsc /\ [][NextEsc]_vars

\* C25: the tokenizer returns exactly one row, and its cells are the cells
\* that were escaped.
C25_EscapeTokenizeInverse ==
  escOut # <<>> => escOut[1] = <<escIn>>

(***************************************************************************)
(* SpecSelect: the selection of the localized build between the operations *)
(* that change the catalogue's ids: deletion, bulk deletion, a form save   *)
(* that changes an id, an import that migrates one.                        *)
(***************************************************************************)
SelectTexts == {L_FileText("new", <<R_isbn10>>), L_FileText("new", <<R_new>>)}

InitSelect ==
  /\ app = "localized"
  /\ books \in {<<Book_X>>, <<Book_X, Book_Out>>}
  /\ InitCommon

NextSelect ==
  \/ toggleSelect
  \/ toggleSelectAllFiltered({<<>>}, {"all", STATUS_OUT})
  \/ removeBook
  \/ removeSelected
  \/ FormOpenEdit
  \/ FormType({<<"e">>}, {ISBN_A}, {<<"x">>})
  \/ L_FormSubmit
  \/ ChooseFile(SelectTexts)
  \/ L_OnLoad

SpecSelect == InitSelect /\ [][NextSelect]_vars

\* C28: every selected id is the id of a record of the catalogue.
C28_SelectionWithinCatalog ==
  selectedIds \subseteq {books[i].id : i \in DOMAIN books}

(***************************************************************************)
(* SpecEdit: the edit dialog of either build, with an import whose file    *)
(* was chosen before the dialog opened and whose read ends while it is     *)
(* open.  The files migrate Book_X's id (a row with another id and         *)
(* Book_X's ISBN), and give the id that became free to a new record.       *)
(***************************************************************************)
R_reuse == Row(<<"a">>, ISBN_C, <<"w">>, <<>>)

EditTexts ==
  IF app = "generic"
  THEN {G_FileText(<<R_isbn10>>), G_FileText(<<R_new>>)}
  ELSE {L_FileText("new", <<R_isbn10>>), L_FileText("new", <<R_isbn10, R_reuse>>)}

InitEdit ==
  /\ app \in {"generic", "localized"}
  /\ books \in {<<Book_X>>, <<Book_X, Book_Y>>}
  /\ InitCommon

NextEdit ==
  \/ ChooseFile(EditTexts)
  \/ L_OnLoad
  \/ G_OnLoad
  \/ FormOpenNew
  \/ FormOpenEdit
  \/ FormType({<<"a">>, <<"b">>}, {ISBN_A}, {<<"e">>})
  \/ G_FormSubmit
  \/ L_FormSubmit

SpecEdit == InitEdit /\ [][NextEdit]_vars

\* The id is the id of a record that is not the one the dialog edits (a
\* record is followed by its history number).
UsedByAnother(id) ==
  \E i \in DOMAIN books :
    books[i].id = id /\ books[i].uid # editing[1].initial.uid

\* C29: a localized form save whose submitted id is the id of a record
\* other than the one being edited leaves the catalogue as it was.
C29_DuplicateIdRejected ==
  [][(L_FormSubmit /\
      UsedByAnother(L_SubmittedId(editing[1].b.id, nextUuid))) =>
       books' = books]_vars

\* C30: a form save of a dialog that was opened on a catalogue row does
\* not add a record.
C30_EditSaveAddsNoRecord ==
  [][((G_FormSubmit \/ L_FormSubmit) /\ editing[1].fromCatalog) =>
       Len(books') <= Len(books)]_vars

(***************************************************************************)
(* SpecDelete: deletions and selections only, in either build, from the    *)
(* initial catalogues and from a catalogue in which two records share an   *)
(* id.                                                                     *)
(***************************************************************************)
InitDelete ==
  /\ app \in {"generic", "localized"}
  /\ books \in InitCatalogs \cup {<<Book_Y, Book_X, Book_IdOnly>>,
                                  <<Book_IdOnly, Book_Out, Book_X>>,
                                  <<Book_Tags, Book_Y>>}
  /\ InitCommon

NextDelete == removeBook \/ toggleSelect \/ removeSelected

SpecDelete == InitDelete /\ [][NextDelete]_vars

\* after is before without exactly the records whose id is in ids: the
\* records kept are those with another id, each as it was, in their order.
RemovedExactly(before, after, ids) ==
  /\ Len(after) <= Len(before)
  /\ \E f \in [DOMAIN after -> DOMAIN before] :
       /\ \A j, k \in DOMAIN after : j < k => f[j] < f[k]
       /\ \A k \in DOMAIN after : after[k] = before[f[k]]
       /\ {f[k] : k \in DOMAIN after}
            = {i \in DOMAIN before : before[i].id \notin ids}

\* C17: a step of removeBook or removeSelected either leaves the catalogue,
\* its stored copy and the selection as they were (the confirmation was
\* declined) or removes exactly the records with the targeted id (the
\* selected ids), every other record staying as it was and in its order.
C17_DeleteConfirmedExact ==
  [][/\ removeBook =>
          \/ (books' = books /\ stored' = stored /\ selectedIds' = selectedIds)
          \/ \E i \in DOMAIN books :
               RemovedExactly(books, books', {books[i].id})
     /\ removeSelected =>
          \/ (books' = books /\ stored' = stored /\ selectedIds' = selectedIds)
          \/ RemovedExactly(books, books', selectedIds)]_vars

\* C17's case: the first operation was the deletion of Book_X from the
\* catalogue of three, confirmed; the two records that share the other id
\* are left, in their order.
C17_Witness ==
  /\ steps = 1
  /\ books = <<Book_Y, Book_IdOnly>>
  /\ stored = save(books)

(***************************************************************************)
(* Spec: every operation of the page, in either build, up to MaxOps user   *)
(* actions (typing into the open dialog is not counted).                   *)
(***************************************************************************)
TypedIds == {<<" ">>, <<"a">>}
TypedIsbns == {ISBN_SHORT, ISBN_A_HYPHENS}
TypedTitles == {<<"x">>}
\* An EAN-8 barcode.
ScanCodes == {<<"4", "9", "0", "1", "2", "3", "4", "5">>}

PageTexts ==
  IF app = "generic" THEN {G_FileText(<<R_cross>>)}
  ELSE {L_FileText("new", <<R_cross>>), L_BadHeaderText(<<R_new>>)}

\* Row sets the remote table answers with.
CloudRowSets ==
  {<<>>,
   <<InitBook(0, <<"a">>, ISBN_B, <<"r">>, <<>>)>>,
   <<InitBook(0, <<"d">>, <<>>, <<"r">>, <<>>)>>}

Init ==
  /\ app \in {"generic", "localized"}
  /\ books \in InitCatalogs
  /\ InitCommon

Next ==
  \/ ChooseFile(PageTexts)
  \/ L_OnLoad
  \/ G_OnLoad
  \/ FormOpenNew
  \/ FormOpenEdit
  \/ FormType(TypedIds, TypedIsbns, TypedTitles)
  \/ FormScan(ScanCodes)
  \/ FormClose
  \/ G_FormSubmit
  \/ L_FormSubmit
  \/ removeBook
  \/ toggleSelect
  \/ removeSelected
  \/ handleSample
  \/ pullFromCloud(CloudRowSets)

Spec == Init /\ [][Next]_vars

\* C3: every record's id is a non-empty string and no two records of the
\* catalogue share an id.
C3_IdsNonEmptyDistinct ==
  /\ \A i \in DOMAIN books : books[i].id # <<>>
  /\ \A i, j \in DOMAIN books : i # j => books[i].id # books[j].id

\* C8: every record's isbn is the empty string or 13 digits.
C8_IsbnCanonical ==
  \A i \in DOMAIN books : books[i].isbn = <<>> \/ IsIsbn13(books[i].isbn)

\* C15: while the page runs, localStorage holds the whole catalogue as it
\* is in memory, after every operation.
C15_StoredIsCatalog ==
  page = "mounted" => (stored.json = "array" /\ stored.value = books)

\* C15's case: an import has changed the catalogue and the stored copy is
\* the catalogue after it.
C15_Witness ==
  /\ lastImport.valid
  /\ books # lastImport.before
  /\ stored.json = "array"
  /\ stored.value = books

====
